---- MODULE Spec2Model ----
(***************************************************************************)
(* Verification model of the kifaru booking platform (Django / DRF).       *)
(*                                                                         *)
(* State: the rows of the Booking, Payment, BlockedDate and                *)
(* PropertyPricing tables, the current date, and for the concurrent        *)
(* specification the position and in-memory objects of every request.      *)
(* The database runs in autocommit mode (no ATOMIC_REQUESTS, no            *)
(* transaction.atomic anywhere), so every ORM statement is one atomic      *)
(* step and Model.save() rewrites the whole row from the in-memory copy.   *)
(*                                                                         *)
(* Encoding: amounts and dates are integers.  The nullable columns of the   *)
(* pricing catalog hold NULL, which is told apart from 0 because the        *)
(* queries test "isnull" while the Python code tests truth.  A nullable     *)
(* foreign key or a not-yet-set counter of a reservation or payment holds   *)
(* 0 (ids start at 1, and Python treats None and 0 alike there).            *)
(***************************************************************************)
EXTENDS Integers, FiniteSets, Sequences, TLC

VARIABLES today, bookings, payments, blocked, pricing, response, pc, loc

vars == <<today, bookings, payments, blocked, pricing, response, pc, loc>>

(* ------------------------------ bounds -------------------------------- *)
MaxDay == 3
MaxBookings == 2
MaxPayBookings == 1
NumProperties == 1
MaxRate == 2
MaxBlocked == 1
NumProcs == 2
MaxNights == 60

Days == 1..MaxDay
BookingIds == 1..MaxBookings
Props == 1..NumProperties
Rates == 1..MaxRate
Procs == 1..NumProcs

(* --------------------------- model choices ---------------------------- *)
\* SQL NULL in the nullable columns of PropertyPricing (null=True)
NULL == 0 - 1

\* Booking.STATUS_CHOICES
STATUS_CHOICES == {"pending", "confirmed", "cancelled", "completed"}

\* Payment.PAYMENT_STATUS_CHOICES
PAYMENT_STATUS_CHOICES == {"pending", "processing", "completed", "failed", "refunded"}

\* status__in=['pending', 'confirmed'] of every availability query
ActiveStatuses == {"pending", "confirmed"}

\* Property rows: read-only for the booking flow.  The first property carries
\* the column default of min_nights; a second one asks for two nights and is
\* the one whose name contains 'North-Sea'.
PropertyTable ==
    [p \in Props |-> [min_nights |-> p, max_guests |-> 4, price |-> 1,
                      country |-> "Kenya", north_sea |-> (p = 2)]]

\* The catalog after set-up: one open-ended short-term row per property.
InitialPricing ==
    [i \in Props |-> [property |-> i,
                      accommodation_type |-> "full_apartment",
                      guest_type |-> "international",
                      stay_type |-> "short_term",
                      number_of_guests |-> NULL,
                      min_nights |-> 1,
                      max_nights |-> NULL,
                      price_per_night |-> 1,
                      weekly_price |-> NULL]]

(* -------------------------- availability ------------------------------ *)
\* the overlap query with the status filter forgotten
OverlappingBookingsAnyStatus(bks, prop, check_in, check_out) ==
    {b \in DOMAIN bks : /\ bks[b].property = prop
                        /\ bks[b].check_in < check_out
                        /\ bks[b].check_out > check_in}

\* Booking.objects.filter(property=, status__in=[pending, confirmed],
\*                        check_in__lt=check_out, check_out__gt=check_in)
OverlappingBookings(bks, prop, check_in, check_out) ==
    {b \in DOMAIN bks : /\ bks[b].property = prop
                        /\ bks[b].status \in ActiveStatuses
                        /\ bks[b].check_in < check_out
                        /\ bks[b].check_out > check_in}

\* BlockedDate.objects.filter(property=, start_date__lt=check_out, end_date__gt=check_in)
OverlappingBlocked(blk, prop, check_in, check_out) ==
    {x \in blk : /\ x.property = prop
                 /\ x.start_date < check_out
                 /\ x.end_date > check_in}

\* a buffer query that finds nobody
SameDayCheckoutNobody(bks, prop, check_in) == {}

\* Booking.objects.filter(property=, status__in=[pending, confirmed], check_out=check_in)
SameDayCheckout(bks, prop, check_in) ==
    {b \in DOMAIN bks : /\ bks[b].property = prop
                        /\ bks[b].status \in ActiveStatuses
                        /\ bks[b].check_out = check_in}

\* PropertyAvailabilityView._get_date_range: the dates from start_date up to,
\* not including, end_date
RECURSIVE _get_date_range(_, _)
_get_date_range(start_date, end_date) ==
    IF start_date < end_date
    THEN <<start_date>> \o _get_date_range(start_date + 1, end_date)
    ELSE <<>>

\* no clipping at the start of the queried range
Max2First(a, b) == a

Max2(a, b) == IF a >= b THEN a ELSE b

Min2(a, b) == IF a <= b THEN a ELSE b

SeqToSet(q) == {q[i] : i \in DOMAIN q}

\* a report whose flag leaves the buffer conflicts out
AvailabilityReportNoBuffer(bks, blk, prop, check_in_date, check_out_date) ==
    [status |-> 200,
     is_available |->
         /\ ~\E b \in DOMAIN bks : /\ bks[b].property = prop
                                   /\ bks[b].status \in {"pending", "confirmed"}
                                   /\ bks[b].check_in < check_out_date
                                   /\ bks[b].check_out > check_in_date
         /\ ~\E x \in blk : /\ x.property = prop
                            /\ x.start_date < check_out_date
                            /\ x.end_date > check_in_date,
     total_nights |-> check_out_date - check_in_date,
     conflicting_bookings |-> {}, blocked_dates |-> {}, buffer_conflicts |-> {},
     unavailable_dates |-> {}]

\* PropertyAvailabilityView.get: the three queries of the view, the flag and
\* the exploded dates.  The dates of the query are parsed and used as they
\* come: the view has no check of their order or of the current date.
AvailabilityReport(bks, blk, prop, check_in_date, check_out_date) ==
    LET overlapping_bookings ==
            {b \in DOMAIN bks : /\ bks[b].property = prop
                                /\ bks[b].status \in {"pending", "confirmed"}
                                /\ bks[b].check_in < check_out_date
                                /\ bks[b].check_out > check_in_date}
        blocked_dates ==
            {x \in blk : /\ x.property = prop
                         /\ x.start_date < check_out_date
                         /\ x.end_date > check_in_date}
        buffer_conflicts ==
            {b \in DOMAIN bks : /\ bks[b].property = prop
                                /\ bks[b].status \in {"pending", "confirmed"}
                                /\ bks[b].check_out = check_in_date}
    IN  [status |-> 200,
         is_available |-> /\ overlapping_bookings = {}
                          /\ blocked_dates = {}
                          /\ buffer_conflicts = {},
         total_nights |-> check_out_date - check_in_date,
         conflicting_bookings |-> overlapping_bookings,
         blocked_dates |-> blocked_dates,
         buffer_conflicts |-> buffer_conflicts,
         unavailable_dates |->
             UNION {SeqToSet(_get_date_range(Max2(check_in_date, bks[b].check_in),
                                             Min2(check_out_date, bks[b].check_out))) :
                       b \in overlapping_bookings}
             \cup
             UNION {SeqToSet(_get_date_range(Max2(check_in_date, x.start_date),
                                             Min2(check_out_date, x.end_date))) :
                       x \in blocked_dates}]

\* PropertyAvailabilityView.get: is_available
IsAvailable(bks, blk, prop, check_in, check_out) ==
    AvailabilityReport(bks, blk, prop, check_in, check_out).is_available

(* ----------------------------- pricing -------------------------------- *)
\* the candidate query of validate() and of Booking.save(): rows of the
\* (property, accommodation type, guest type, stay type) whose night bounds
\* admit the stay
PricingQuery(cat, prop, acc, guest, stay, nights) ==
    {i \in DOMAIN cat : /\ cat[i].property = prop
                        /\ cat[i].accommodation_type = acc
                        /\ cat[i].guest_type = guest
                        /\ cat[i].stay_type = stay
                        /\ cat[i].min_nights <= nights
                        /\ (cat[i].max_nights = NULL \/ cat[i].max_nights >= nights)}

\* the 'all' rows consulted next to the specific ones, whatever those give
PricingCandidatesMerged(cat, prop, acc, guest, stay, nights) ==
    PricingQuery(cat, prop, acc, guest, stay, nights)
    \cup PricingQuery(cat, prop, acc, "all", stay, nights)

\* specific guest type first, then the 'all' rows
PricingCandidates(cat, prop, acc, guest, stay, nights) ==
    IF PricingQuery(cat, prop, acc, guest, stay, nights) # {}
    THEN PricingQuery(cat, prop, acc, guest, stay, nights)
    ELSE PricingQuery(cat, prop, acc, "all", stay, nights)

\* rows whose capacity admits the party, or that carry no capacity
WithCapacity(cat, cand, guests) ==
    {i \in cand : cat[i].number_of_guests >= guests \/ cat[i].number_of_guests = NULL}

\* .order_by('number_of_guests').first(): smallest capacity first, NULL
\* capacities last (PostgreSQL), lowest id among equals
FirstByCapacity(cat, rows) ==
    LET bound == {i \in rows : cat[i].number_of_guests # NULL}
        pool == IF bound # {} THEN bound ELSE rows
    IN  CHOOSE i \in pool :
            \A j \in pool : \/ cat[i].number_of_guests < cat[j].number_of_guests
                            \/ /\ cat[i].number_of_guests = cat[j].number_of_guests
                               /\ i <= j

\* QuerySet.first() under the model's default ordering
FirstRow(rows) == CHOOSE i \in rows : \A j \in rows : i <= j

\* validate(): pricing_exists for the request
PricingExists(cat, prop, acc, guest, stay, nights, guests) ==
    IF guests # 0
    THEN WithCapacity(cat, PricingCandidates(cat, prop, acc, guest, stay, nights), guests) # {}
    ELSE PricingCandidates(cat, prop, acc, guest, stay, nights) # {}

(* --------------------------- Booking.save ----------------------------- *)
SelectPricing(b, cat) ==
    LET cand == PricingCandidates(cat, b.property, b.accommodation_type,
                                  b.guest_type, b.stay_type, b.total_days)
        fit  == WithCapacity(cat, cand, b.number_of_guests)
    IN  IF fit # {} THEN FirstByCapacity(cat, fit)
        ELSE IF cand # {} THEN FirstRow(cand)
        ELSE 0

TotalAmount(b, cat) ==
    IF b.selected_pricing # 0 /\ b.total_days # 0
    THEN IF /\ cat[b.selected_pricing].weekly_price \notin {NULL, 0}
            /\ b.total_days % 7 = 0
         THEN cat[b.selected_pricing].weekly_price * (b.total_days \div 7)
         ELSE cat[b.selected_pricing].price_per_night * b.total_days
    ELSE IF b.total_days # 0
         THEN PropertyTable[b.property].price * b.total_days
         ELSE b.total_amount

\* Booking.save(): stay_type, set only when the instance has none ("")
SaveStayType(b, cat) ==
    LET has_weekly_pricing ==
            \E i \in DOMAIN cat : /\ cat[i].property = b.property
                                  /\ cat[i].accommodation_type = b.accommodation_type
                                  /\ cat[i].stay_type = "weekly"
    IN  IF b.stay_type = "" /\ b.total_days # 0
        THEN IF b.total_days % 7 = 0 /\ has_weekly_pricing THEN "weekly"
             ELSE IF b.total_days >= 10 THEN "long_term"
             ELSE IF b.total_days < 7 THEN "short_term"
             ELSE "short_term"
        ELSE b.stay_type

\* Booking.save(): fills what is not set yet and recomputes the amount from
\* the selected pricing row on EVERY save.  stay_type and guest_type arrive
\* with their column defaults, so the "if not self.stay_type" and
\* "if not self.guest_type" branches keep them.
BookingSave(b, cat) ==
    LET b0 == IF b.total_days = 0
              THEN [b EXCEPT !.total_days = b.check_out - b.check_in]
              ELSE b
        b1 == [b0 EXCEPT !.stay_type = SaveStayType(b0, cat)]
        b2 == IF b1.selected_pricing = 0
              THEN [b1 EXCEPT !.selected_pricing = SelectPricing(b1, cat)]
              ELSE b1
    IN  [b2 EXCEPT !.total_amount = TotalAmount(b2, cat)]

(* ------------------------ create-booking request ---------------------- *)
\* a classifier that knows one week only and does not look at the catalog
ClassifyStayOneWeek(cat, prop, acc, nights) ==
    IF nights = 7 THEN "weekly"
    ELSE IF nights >= 10 THEN "long_term"
    ELSE "short_term"

\* validate(): the duration tier of the request
ClassifyStay(cat, prop, acc, nights) ==
    LET has_weekly_pricing ==
            \E i \in DOMAIN cat : /\ cat[i].property = prop
                                  /\ cat[i].accommodation_type = acc
                                  /\ cat[i].stay_type = "weekly"
    IN  IF nights % 7 = 0 /\ has_weekly_pricing THEN "weekly"
        ELSE IF nights >= 10 THEN "long_term"
        ELSE IF nights < 7 THEN "short_term"
        ELSE "short_term"

\* str.lower() on the country names that occur
Lower(c) ==
    IF c \in {"Kenya", "KENYA"} THEN "kenya"
    ELSE IF c = "Belgium" THEN "belgium"
    ELSE c

\* what phonenumbers makes of the phone values that occur: "" is no phone,
\* "0712" raises NumberParseException (no country code), "+2540" parses but
\* is not a valid number, "+254712345678" and "+32471234567" are valid
\* numbers of Kenya and of Belgium, "+88212345678" is valid and has no
\* country description
PhoneValues == {"", "0712", "+2540", "+254712345678", "+32471234567", "+88212345678"}

PhoneParses(phone) == phone \notin {"", "0712"}

PhoneIsValid(phone) == phone \in {"+254712345678", "+32471234567", "+88212345678"}

\* geocoder.description_for_number(parsed, "en")
PhoneCountry(phone) ==
    IF phone = "+254712345678" THEN "Kenya"
    ELSE IF phone = "+32471234567" THEN "Belgium"
    ELSE ""

\* the residence country of the account is not looked at
ByResidenceIgnored(req) == FALSE

\* validate(): is the guest classified from the account's residence country
ByResidence(req) == req.is_authenticated /\ req.user_country # ""

\* validate(): the phone check that sits between the buffer check and the
\* pricing query; "" when it passes or is not run
PhoneError(req) ==
    IF ByResidence(req) \/ req.phone = "" THEN ""
    ELSE IF ~PhoneParses(req.phone) THEN "invalid_phone_format"
    ELSE IF ~PhoneIsValid(req.phone) THEN "invalid_phone"
    ELSE ""

\* validate(): guest_type
GuestType(req) ==
    IF ByResidence(req)
    THEN IF Lower(req.user_country) = Lower(PropertyTable[req.property].country)
         THEN "local" ELSE "international"
    ELSE IF /\ req.phone # ""
            /\ PhoneCountry(req.phone) # ""
            /\ Lower(PhoneCountry(req.phone)) = Lower(PropertyTable[req.property].country)
         THEN "local"
         ELSE "international"

\* rows of a (property, accommodation type)
RowsOf(cat, prop, acc) ==
    {i \in DOMAIN cat : cat[i].property = prop /\ cat[i].accommodation_type = acc}

\* aggregate(Max(column)) and aggregate(Min(column)): NULLs are skipped, the
\* result is NULL (None) when nothing is left
MaxOf(vals) ==
    IF vals \ {NULL} = {} THEN NULL
    ELSE CHOOSE v \in vals \ {NULL} : \A w \in vals \ {NULL} : w <= v

MinOf(vals) ==
    IF vals \ {NULL} = {} THEN NULL
    ELSE CHOOSE v \in vals \ {NULL} : \A w \in vals \ {NULL} : v <= w

\* Python truth of an aggregate: neither None nor 0
Truthy(v) == v \notin {NULL, 0}

\* validate(): the detailed diagnostics once pricing_exists is False,
\* serializers.py "1." to the generic error
ValidateDiagnostic(cat, prop, acc, guest, stay, nights) ==
    LET rows == RowsOf(cat, prop, acc)
        min_nights_pricing == MinOf({cat[i].min_nights : i \in rows})
        max_nights_pricing ==
            MaxOf({cat[i].max_nights : i \in {j \in rows : cat[j].min_nights <= nights}})
        has_unlimited == \E i \in rows : cat[i].max_nights = NULL
        available_stay_types == {cat[i].stay_type : i \in rows}
        available_for_all == \E i \in rows : cat[i].guest_type = "all"
        guest_type_available == \E i \in rows : cat[i].guest_type = guest
    IN  IF rows = {} THEN "accommodation_unavailable"
        ELSE IF Truthy(min_nights_pricing) /\ nights < min_nights_pricing
             THEN "minimum_nights_not_met"
        ELSE IF Truthy(max_nights_pricing) /\ ~has_unlimited /\ nights > max_nights_pricing
             THEN "maximum_nights_exceeded"
        ELSE IF available_stay_types # {} /\ stay \notin available_stay_types
             THEN "invalid_stay_duration"
        ELSE IF ~available_for_all /\ ~guest_type_available
             THEN "guest_type_not_supported"
        ELSE "pricing_not_available"

\* validate(): the pricing check of a request that passed the availability
\* checks: "ok", the capacity error, or a diagnostic
ValidatePricing(cat, prop, acc, guest, stay, nights, guests) ==
    LET max_capacity ==
            MaxOf({cat[i].number_of_guests :
                      i \in {j \in RowsOf(cat, prop, acc) : cat[j].stay_type = stay}})
    IN  IF PricingExists(cat, prop, acc, guest, stay, nights, guests) THEN "ok"
        ELSE IF guests # 0 /\ Truthy(max_capacity) /\ guests > max_capacity
             THEN "guest_capacity_exceeded"
        ELSE ValidateDiagnostic(cat, prop, acc, guest, stay, nights)

\* validate(): the checks that come before the dates
ValidateFields(req) ==
    IF ~req.is_authenticated /\ ~req.full_name THEN "full_name_required"
    ELSE IF ~req.is_authenticated /\ ~req.email THEN "email_required"
    ELSE IF ~req.is_authenticated /\ req.phone = "" THEN "phone_required"
    ELSE IF req.is_authenticated /\ ~req.user_phone /\ req.phone = ""
         THEN "profile_phone_required"
    ELSE IF /\ req.number_of_adults # 0
            /\ req.number_of_children # 0
            /\ req.number_of_adults + req.number_of_children # req.number_of_guests
         THEN "occupancy_mismatch"
    ELSE IF /\ PropertyTable[req.property].max_guests # 0
            /\ req.number_of_guests # 0
            /\ req.number_of_guests > PropertyTable[req.property].max_guests
         THEN "max_guests_exceeded"
    ELSE IF req.dog_included /\ ~PropertyTable[req.property].north_sea
         THEN "dogs_not_allowed"
    ELSE "ok"

\* BookingCreateRequestSerializer.validate: the first failing check names
\* the diagnostic, "ok" when all pass
ValidateBooking(req, bks, blk, cat, day) ==
    LET nights == req.check_out - req.check_in
    IN  IF ValidateFields(req) # "ok" THEN ValidateFields(req)
        ELSE IF req.check_in >= req.check_out THEN "invalid_date_range"
        ELSE IF req.check_in < day THEN "past_check_in"
        ELSE IF nights < PropertyTable[req.property].min_nights THEN "minimum_nights"
        ELSE IF OverlappingBookings(bks, req.property, req.check_in, req.check_out) # {}
             THEN "date_conflict"
        ELSE IF OverlappingBlocked(blk, req.property, req.check_in, req.check_out) # {}
             THEN "blocked"
        ELSE IF SameDayCheckout(bks, req.property, req.check_in) # {} THEN "buffer"
        ELSE IF PhoneError(req) # "" THEN PhoneError(req)
        ELSE ValidatePricing(cat, req.property, req.accommodation_type, GuestType(req),
                             ClassifyStay(cat, req.property, req.accommodation_type, nights),
                             nights, req.number_of_guests)

(* --------------------------- price preview ---------------------------- *)
\* CalculatePriceView.get: stay_type
PreviewStayType(cat, prop, acc, total_days) ==
    LET has_weekly_pricing ==
            \E i \in DOMAIN cat : /\ cat[i].property = prop
                                  /\ cat[i].accommodation_type = acc
                                  /\ cat[i].stay_type = "weekly"
    IN  IF total_days % 7 = 0 /\ has_weekly_pricing THEN "weekly"
        ELSE IF total_days >= 10 THEN "long_term"
        ELSE IF total_days < 7 THEN "short_term"
        ELSE "short_term"

\* CalculatePriceView.get: the record selection.  guests is NULL when the
\* number_of_guests parameter is absent.  The result is a row id, 0 for
\* "selected_pricing = None", or the capacity error.
PreviewSelect(cat, prop, acc, guest, stay, nights, guests) ==
    LET pricing_query == PricingCandidates(cat, prop, acc, guest, stay, nights)
        fit == {i \in pricing_query : \/ cat[i].number_of_guests >= guests
                                      \/ cat[i].number_of_guests = NULL}
        max_capacity == MaxOf({cat[i].number_of_guests : i \in pricing_query})
        unrestricted == {i \in pricing_query : cat[i].number_of_guests = NULL}
    IN  IF pricing_query = {} THEN [error |-> "", selected |-> 0]
        ELSE IF guests # NULL
        THEN IF fit # {} THEN [error |-> "", selected |-> FirstByCapacity(cat, fit)]
             ELSE IF Truthy(max_capacity) /\ guests > max_capacity
             THEN [error |-> "guest_capacity_exceeded", selected |-> 0]
             ELSE [error |-> "", selected |-> 0]
        ELSE IF unrestricted # {} THEN [error |-> "", selected |-> FirstRow(unrestricted)]
        ELSE [error |-> "", selected |-> FirstRow(pricing_query)]

\* CalculatePriceView.get: the detailed diagnostics once nothing is selected
PreviewDiagnostic(cat, prop, acc, guest, stay, nights) ==
    LET rows == RowsOf(cat, prop, acc)
        min_nights_required == MinOf({cat[i].min_nights : i \in rows})
        max_nights_allowed ==
            MaxOf({cat[i].max_nights : i \in {j \in rows : cat[j].min_nights <= nights}})
        has_unlimited == \E i \in rows : cat[i].max_nights = NULL
        available_for_all == \E i \in rows : cat[i].guest_type = "all"
        available_stay_types == {cat[i].stay_type : i \in rows}
        guest_type_available == \E i \in rows : cat[i].guest_type = guest
    IN  IF rows = {} THEN "accommodation_unavailable"
        ELSE IF Truthy(min_nights_required) /\ nights < min_nights_required
             THEN "minimum_nights_not_met"
        ELSE IF Truthy(max_nights_allowed) /\ ~has_unlimited /\ nights > max_nights_allowed
             THEN "maximum_nights_exceeded"
        ELSE IF available_stay_types # {} /\ stay \notin available_stay_types
             THEN "invalid_stay_duration"
        ELSE IF ~available_for_all
             THEN IF ~guest_type_available THEN "guest_type_not_supported"
                  ELSE "pricing_not_available"
        ELSE "pricing_not_available"

\* CalculatePriceView.get: total_amount of the selected record
PreviewAmount(cat, selected, nights) ==
    IF cat[selected].weekly_price \notin {NULL, 0} /\ nights % 7 = 0
    THEN cat[selected].weekly_price * (nights \div 7)
    ELSE cat[selected].price_per_night * nights

\* CalculatePriceView.get from the pricing query on: what the resolver
\* answers for a classified stay
PreviewResolve(cat, prop, acc, guest, stay, nights, guests) ==
    LET sel == PreviewSelect(cat, prop, acc, guest, stay, nights, guests)
    IN  IF sel.error # ""
        THEN [status |-> 400, error_type |-> sel.error, selected |-> 0, total_amount |-> 0]
        ELSE IF sel.selected = 0
        THEN [status |-> 400,
              error_type |-> PreviewDiagnostic(cat, prop, acc, guest, stay, nights),
              selected |-> 0, total_amount |-> 0]
        ELSE [status |-> 200, error_type |-> "", selected |-> sel.selected,
              total_amount |-> PreviewAmount(cat, sel.selected, nights)]

\* CalculatePriceView.get: guest_type; the phone is there and valid when the
\* second branch is reached
PreviewGuestType(req) ==
    IF ByResidence(req) /\ PropertyTable[req.property].country # ""
    THEN IF Lower(req.user_country) = Lower(PropertyTable[req.property].country)
         THEN "local" ELSE "international"
    ELSE IF /\ PhoneCountry(req.phone) # ""
            /\ Lower(PhoneCountry(req.phone)) = Lower(PropertyTable[req.property].country)
         THEN "local"
         ELSE "international"

\* the number_of_guests query parameter of a preview made for a request
PreviewGuests(req) == IF req.number_of_guests = 0 THEN NULL ELSE req.number_of_guests

\* CalculatePriceView.get for the property, dates, accommodation type, phone
\* and occupancy of a request
CalculatePrice(req, cat) ==
    LET total_days == req.check_out - req.check_in
        stay_type == PreviewStayType(cat, req.property, req.accommodation_type, total_days)
        failed(e) == [status |-> 400, error_type |-> e, guest_type |-> "", stay_type |-> "",
                      selected |-> 0, total_amount |-> 0]
    IN  IF ~ByResidence(req) /\ req.phone = "" THEN failed("missing_phone")
        ELSE IF total_days <= 0 THEN failed("invalid_date_range")
        ELSE IF ~(ByResidence(req) /\ PropertyTable[req.property].country # "")
                /\ ~(PhoneParses(req.phone) /\ PhoneIsValid(req.phone))
             THEN failed("invalid_phone_format")
        ELSE LET r == PreviewResolve(cat, req.property, req.accommodation_type,
                                     PreviewGuestType(req), stay_type, total_days,
                                     PreviewGuests(req))
             IN  IF r.status # 200 THEN failed(r.error_type)
                 ELSE [status |-> 200, error_type |-> "",
                       guest_type |-> PreviewGuestType(req), stay_type |-> stay_type,
                       selected |-> r.selected, total_amount |-> r.total_amount]

\* the unsaved Booking instance ModelSerializer.create builds: the request's
\* fields, every other column at its default
NewBooking(req) ==
    [property |-> req.property,
     accommodation_type |-> req.accommodation_type,
     check_in |-> req.check_in,
     check_out |-> req.check_out,
     number_of_guests |-> IF req.number_of_guests = 0 THEN 2 ELSE req.number_of_guests,
     guest_type |-> "international",
     stay_type |-> "short_term",
     status |-> "pending",
     total_days |-> 0,
     selected_pricing |-> 0,
     total_amount |-> 0]

\* the id the database gives the next inserted row
NextId(bks) == Cardinality(DOMAIN bks) + 1

\* INSERT of one row
InsertBooking(bks, row) ==
    [b \in DOMAIN bks \cup {NextId(bks)} |-> IF b \in DOMAIN bks THEN bks[b] ELSE row]

Resp(op, status, error) == [op |-> op, status |-> status, error |-> error]

\* a create that saves the row before it looks at the outcome of validation
CreateEffectSaveFirst(bks, pays, blk, cat, day, req) ==
    LET err == ValidateBooking(req, bks, blk, cat, day)
    IN  [bookings |-> InsertBooking(bks, BookingSave(NewBooking(req), cat)),
         payments |-> pays,
         response |-> IF err # "ok" THEN Resp("create", 400, err)
                      ELSE Resp("create", 201, "")]

\* BookingListCreateView.create: is_valid, then serializer.save()
CreateEffect(bks, pays, blk, cat, day, req) ==
    LET err == ValidateBooking(req, bks, blk, cat, day)
    IN  IF err # "ok"
        THEN [bookings |-> bks, payments |-> pays, response |-> Resp("create", 400, err)]
        ELSE [bookings |-> InsertBooking(bks, BookingSave(NewBooking(req), cat)),
              payments |-> pays,
              response |-> Resp("create", 201, "")]

(* ------------------------------ cancel -------------------------------- *)
\* BookingCancelView.post
CancelEffect(bks, pays, cat, b, has_permission) ==
    IF b \notin DOMAIN bks
    THEN [bookings |-> bks, payments |-> pays, response |-> Resp("cancel", 404, "not_found")]
    ELSE IF ~has_permission
    THEN [bookings |-> bks, payments |-> pays, response |-> Resp("cancel", 403, "forbidden")]
    ELSE IF bks[b].status = "cancelled"
    THEN [bookings |-> bks, payments |-> pays, response |-> Resp("cancel", 400, "already_cancelled")]
    ELSE IF bks[b].status = "completed"
    THEN [bookings |-> bks, payments |-> pays, response |-> Resp("cancel", 400, "completed")]
    ELSE [bookings |-> [bks EXCEPT ![b] = BookingSave([@ EXCEPT !.status = "cancelled"], cat)],
          payments |-> IF b \in DOMAIN pays /\ pays[b].status = "completed"
                       THEN [pays EXCEPT ![b].status = "refunded"]
                       ELSE pays,
          response |-> Resp("cancel", 200, "")]

(* ---------------------- booking detail endpoint ----------------------- *)
\* ModelSerializer.update: the supplied writable fields replace the row's
ApplyPatch(row, patch) ==
    [f \in DOMAIN row |-> IF f \in DOMAIN patch THEN patch[f] ELSE row[f]]

\* BookingDetailView PUT/PATCH with BookingSerializer (no validate method)
UpdateEffect(bks, pays, cat, b, in_queryset, patch) ==
    IF b \notin DOMAIN bks \/ ~in_queryset
    THEN [bookings |-> bks, payments |-> pays, response |-> Resp("update", 404, "not_found")]
    ELSE [bookings |-> [bks EXCEPT ![b] = BookingSave(ApplyPatch(@, patch), cat)],
          payments |-> pays,
          response |-> Resp("update", 200, "")]

(* ----------------------------- payments ------------------------------- *)
\* the token standing for the reference "BK-<booking id>-<uuid>" that
\* PaymentInitializeView gives the payment of booking b
ReferenceOf(b) == b

\* Payment.objects.get(paystack_reference=reference): the bookings whose
\* payment carries the reference (the column is unique)
PaymentsByReference(pays, reference) ==
    {b \in DOMAIN pays : reference # 0 /\ pays[b].reference = reference}

\* defaults of Payment.objects.get_or_create(booking=booking, defaults=...)
NewPayment(bks, b) ==
    [status |-> "pending",
     reference |-> 0,
     completed_at |-> 0,
     failure_reason |-> "",
     amount |-> bks[b].total_amount]

\* INSERT or UPDATE of the payment row of booking b
PutPayment(pays, b, row) ==
    [x \in DOMAIN pays \cup {b} |-> IF x = b THEN row ELSE pays[x]]

\* PaymentInitializeView.post up to the processor call: get_or_create, the
\* reset of a non-pending payment, the reference
PreparePayment(bks, pays, b) ==
    LET p0 == IF b \in DOMAIN pays THEN pays[b] ELSE NewPayment(bks, b)
        p1 == IF b \in DOMAIN pays /\ p0.status # "pending"
              THEN [p0 EXCEPT !.status = "pending"]
              ELSE p0
    IN  IF p1.reference = 0 THEN [p1 EXCEPT !.reference = ReferenceOf(b)] ELSE p1

\* an initialization that keeps going as if the processor had answered
InitializeEffectIgnoringFailure(bks, pays, b, permitted, processor_ok) ==
    IF b \notin DOMAIN bks
    THEN [bookings |-> bks, payments |-> pays, response |-> Resp("initialize", 404, "not_found")]
    ELSE IF ~permitted
    THEN [bookings |-> bks, payments |-> pays, response |-> Resp("initialize", 403, "forbidden")]
    ELSE [bookings |-> bks,
          payments |-> PutPayment(pays, b, PreparePayment(bks, pays, b)),
          response |-> Resp("initialize", 200, "")]

\* PaymentInitializeView.post; processor_ok is paystack_result['status']
InitializeEffect(bks, pays, b, permitted, processor_ok) ==
    IF b \notin DOMAIN bks
    THEN [bookings |-> bks, payments |-> pays, response |-> Resp("initialize", 404, "not_found")]
    ELSE IF ~permitted
    THEN [bookings |-> bks, payments |-> pays, response |-> Resp("initialize", 403, "forbidden")]
    ELSE IF processor_ok
    THEN [bookings |-> bks,
          payments |-> PutPayment(pays, b, PreparePayment(bks, pays, b)),
          response |-> Resp("initialize", 200, "")]
    ELSE [bookings |-> bks,
          payments |-> PutPayment(pays, b,
                          [PreparePayment(bks, pays, b) EXCEPT
                              !.status = "failed",
                              !.failure_reason = "Payment initialization failed"]),
          response |-> Resp("initialize", 400, "initialization_failed")]

\* the completion branch shared by verify and the webhook: the payment is
\* completed, its booking confirmed and saved, then the payment saved
CompletePayment(bks, pays, cat, day, b) ==
    [bookings |-> [bks EXCEPT ![b] = BookingSave([@ EXCEPT !.status = "confirmed"], cat)],
     payments |-> [pays EXCEPT ![b].status = "completed", ![b].completed_at = day]]

\* the transaction statuses verify_payment can report, and "error" for a
\* processor answer without data
VerifyResults == {"success", "failed", "abandoned", "error"}

\* PaymentVerifyView.get
VerifyEffect(bks, pays, cat, day, reference, permitted, result) ==
    IF PaymentsByReference(pays, reference) = {}
    THEN [bookings |-> bks, payments |-> pays, response |-> Resp("verify", 404, "not_found")]
    ELSE IF ~permitted
    THEN [bookings |-> bks, payments |-> pays, response |-> Resp("verify", 403, "forbidden")]
    ELSE LET b == CHOOSE x \in PaymentsByReference(pays, reference) : TRUE
         IN  IF result = "error"
             THEN [bookings |-> bks, payments |-> pays,
                   response |-> Resp("verify", 400, "verification_failed")]
             ELSE IF result = "success"
             THEN [bookings |-> CompletePayment(bks, pays, cat, day, b).bookings,
                   payments |-> CompletePayment(bks, pays, cat, day, b).payments,
                   response |-> Resp("verify", 200, "")]
             ELSE [bookings |-> bks,
                   payments |-> [pays EXCEPT ![b].status = "failed",
                                             ![b].failure_reason = "Transaction status"],
                   response |-> Resp("verify", 400, "transaction_failed")]

(* ------------------------------ webhook ------------------------------- *)
\* settings.PAYSTACK_SECRET_KEY, as a number
SecretKey == 2

\* the values an X-Paystack-Signature header can take: 0 for an absent
\* header, 1..NumDigests for a hex digest, NumDigests + 1 for a value
\* compare_digest cannot compare (it raises, the except returns False)
NumDigests == 3
Signatures == 0..(NumDigests + 1)

\* the request bodies: something that is not JSON, or an event with the
\* reference it names (0 when it names none)
WebhookEvents == {"charge.success", "charge.failed"}

Bodies ==
    [kind : {"garbage"}, event : {""}, reference : {0}]
    \cup [kind : {"json"}, event : WebhookEvents, reference : {0} \cup BookingIds]

\* the notification Paystack sends when the charge of a reference succeeds
ChargeSuccess(reference) == [kind |-> "json", event |-> "charge.success", reference |-> reference]

\* the bytes of a body, as a number the digest is computed from
BodyBytes(body) ==
    IF body.kind = "garbage" THEN 0
    ELSE 1 + 2 * body.reference + (IF body.event = "charge.success" THEN 0 ELSE 1)

\* hmac.new(key, msg, sha512).hexdigest()
HmacDigest(key, body) == ((key + BodyBytes(body)) % NumDigests) + 1

\* a verification that only requires a well-formed digest
verify_webhook_signature_any(body, signature) == signature \in 1..NumDigests

\* paystack_utils.verify_webhook_signature
verify_webhook_signature(body, signature) ==
    IF signature \notin 1..NumDigests THEN FALSE
    ELSE HmacDigest(SecretKey, body) = signature

\* PaystackWebhookView.post
WebhookEffect(bks, pays, cat, day, signature, body) ==
    IF signature = 0
    THEN [bookings |-> bks, payments |-> pays, response |-> Resp("webhook", 400, "no_signature")]
    ELSE IF ~verify_webhook_signature(body, signature)
    THEN [bookings |-> bks, payments |-> pays, response |-> Resp("webhook", 400, "invalid_signature")]
    ELSE IF body.kind # "json"
    THEN [bookings |-> bks, payments |-> pays, response |-> Resp("webhook", 400, "invalid_json")]
    ELSE IF /\ body.event = "charge.success"
            /\ PaymentsByReference(pays, body.reference) # {}
            /\ pays[CHOOSE x \in PaymentsByReference(pays, body.reference) : TRUE].status
                   # "completed"
    THEN LET b == CHOOSE x \in PaymentsByReference(pays, body.reference) : TRUE
         IN  [bookings |-> CompletePayment(bks, pays, cat, day, b).bookings,
              payments |-> CompletePayment(bks, pays, cat, day, b).payments,
              response |-> Resp("webhook", 200, "")]
    ELSE [bookings |-> bks, payments |-> pays, response |-> Resp("webhook", 200, "")]

(* ======================= requests, one at a time ====================== *)
\* a create-booking request for a date range
RequestFor(prop, check_in, check_out) ==
    [property |-> prop, check_in |-> check_in, check_out |-> check_out,
     accommodation_type |-> "full_apartment", number_of_guests |-> 2,
     number_of_adults |-> 2, number_of_children |-> 0,
     is_authenticated |-> TRUE, user_country |-> "Belgium", user_phone |-> TRUE,
     full_name |-> TRUE, email |-> TRUE, phone |-> "", dog_included |-> FALSE]

\* the create-booking requests: every date pair, sensible or not
Requests ==
    [property : Props, check_in : Days, check_out : Days,
     accommodation_type : {"full_apartment"}, number_of_guests : {2},
     number_of_adults : {2}, number_of_children : {0},
     is_authenticated : {TRUE}, user_country : {"Belgium"}, user_phone : {TRUE},
     full_name : {TRUE}, email : {TRUE}, phone : {""}, dog_included : {FALSE}]

\* the PATCH bodies sent to the booking detail endpoint: a new status, new
\* dates or another property
Patches ==
    [status : STATUS_CHOICES]
    \cup {[check_in |-> r[1], check_out |-> r[2]] : r \in {x \in Days \X Days : x[1] < x[2]}}
    \cup [property : Props]

NoLocal == [op |-> "none"]

Init ==
    /\ today = 1
    /\ bookings = <<>>
    /\ payments = <<>>
    /\ blocked = {}
    /\ pricing = InitialPricing
    /\ response = Resp("none", 0, "")
    /\ pc = [p \in Procs |-> "idle"]
    /\ loc = [p \in Procs |-> NoLocal]

Apply(eff) ==
    /\ bookings' = eff.bookings
    /\ payments' = eff.payments
    /\ response' = eff.response
    /\ UNCHANGED <<today, blocked, pricing, pc, loc>>

CreateBooking(req) ==
    /\ Cardinality(DOMAIN bookings) < MaxBookings
    /\ Apply(CreateEffect(bookings, payments, blocked, pricing, today, req))

CancelBooking(b, has_permission) ==
    Apply(CancelEffect(bookings, payments, pricing, b, has_permission))

UpdateBooking(b, in_queryset, patch) ==
    Apply(UpdateEffect(bookings, payments, pricing, b, in_queryset, patch))

PaymentInitialize(b, permitted, processor_ok) ==
    Apply(InitializeEffect(bookings, payments, b, permitted, processor_ok))

PaymentVerify(reference, permitted, result) ==
    Apply(VerifyEffect(bookings, payments, pricing, today, reference, permitted, result))

PaystackWebhook(signature, body) ==
    Apply(WebhookEffect(bookings, payments, pricing, today, signature, body))

\* PropertyPricingDetailView PATCH: an administrator changes a nightly rate
UpdatePricing(i, rate) ==
    /\ i \in DOMAIN pricing
    /\ pricing' = [pricing EXCEPT ![i].price_per_night = rate]
    /\ response' = Resp("pricing", 200, "")
    /\ UNCHANGED <<today, bookings, payments, blocked, pc, loc>>

\* BlockedDateListCreateView POST: BlockedDateSerializer.validate, then
\* BlockedDate.save() with full_clean()
BlockDates(prop, start_date, end_date) ==
    /\ Cardinality(blocked) < MaxBlocked
    /\ IF end_date <= start_date
       THEN /\ response' = Resp("block", 400, "end_before_start")
            /\ UNCHANGED blocked
       ELSE /\ response' = Resp("block", 201, "")
            /\ blocked' = blocked \cup
                   {[property |-> prop, start_date |-> start_date, end_date |-> end_date]}
    /\ UNCHANGED <<today, bookings, payments, pricing, pc, loc>>

\* midnight passes
NextDay ==
    /\ today < MaxDay
    /\ today' = today + 1
    /\ UNCHANGED <<bookings, payments, blocked, pricing, response, pc, loc>>

(* ----- Spec: the reservation store under requests served one by one ---- *)
\* every writer of reservation state, with the processor answering and the
\* caller entitled; the refusals are exercised in SpecPay
Next ==
    \/ \E req \in Requests : CreateBooking(req)
    \/ \E b \in BookingIds : CancelBooking(b, TRUE)
    \/ \E b \in BookingIds, patch \in Patches : UpdateBooking(b, TRUE, patch)
    \/ \E b \in BookingIds : PaymentInitialize(b, TRUE, TRUE)
    \/ \E reference \in BookingIds : PaymentVerify(reference, TRUE, "success")
    \/ \E body \in Bodies : PaystackWebhook(HmacDigest(SecretKey, body), body)

Spec == Init /\ [][Next]_vars

(* ---- SpecPrice: a reservation's amount while the catalog is edited ---- *)
NextPrice ==
    \/ \E req \in Requests : CreateBooking(req)
    \/ \E i \in Props, rate \in Rates : UpdatePricing(i, rate)
    \/ \E b \in BookingIds : PaymentInitialize(b, TRUE, TRUE)
    \/ \E reference \in BookingIds : PaymentVerify(reference, TRUE, "success")
    \/ \E b \in BookingIds, has_permission \in BOOLEAN : CancelBooking(b, has_permission)

SpecPrice == Init /\ [][NextPrice]_vars

(* ------ SpecAvail: availability while reservations come and go -------- *)
\* the detail endpoint is used here only to close a stay (status completed),
\* and the administrator blocks the first night of property 1
NextAvail ==
    \/ \E req \in Requests : CreateBooking(req)
    \/ \E b \in BookingIds : CancelBooking(b, TRUE)
    \/ \E b \in BookingIds : UpdateBooking(b, TRUE, [status |-> "completed"])
    \/ BlockDates(1, 1, 2)

SpecAvail == Init /\ [][NextAvail]_vars

(* ------ SpecReport: the availability report next to create-booking ---- *)
\* reservations are made and cancelled, the administrator blocks the first
\* night of property 1, and days pass
NextReport ==
    \/ \E req \in Requests : CreateBooking(req)
    \/ \E b \in BookingIds : CancelBooking(b, TRUE)
    \/ BlockDates(1, 1, 2)
    \/ NextDay

SpecReport == Init /\ [][NextReport]_vars

(* ------ SpecCreate: create-booking requests of every shape ------------ *)
\* a request with everything in order for a date range, and the ways a
\* one-night request can be out of order: guest details, phone, occupancy,
\* dog, accommodation type
\* (number_of_adults and number_of_children are the counts the body carries,
\* 0 included; number_of_guests 0 is a body without the field)
CreateRequests ==
    Requests
    \cup [property : Props, check_in : {1}, check_out : {2},
          accommodation_type : {"full_apartment"}, number_of_guests : {2},
          number_of_adults : {2}, number_of_children : {0},
          is_authenticated : BOOLEAN, user_country : {"", "Kenya"},
          user_phone : BOOLEAN, full_name : BOOLEAN, email : BOOLEAN,
          phone : {"", "0712", "+2540", "+254712345678"}, dog_included : {FALSE}]
    \cup [property : Props, check_in : {1}, check_out : {2},
          accommodation_type : {"full_apartment", "master_bedroom"},
          number_of_guests : {0, 2, 5},
          number_of_adults : {0, 1, 2}, number_of_children : {0, 1},
          is_authenticated : {TRUE}, user_country : {"Belgium"},
          user_phone : {TRUE}, full_name : {TRUE}, email : {TRUE},
          phone : {""}, dog_included : BOOLEAN]

NextCreate ==
    \/ \E req \in CreateRequests : CreateBooking(req)
    \/ BlockDates(1, 1, 2)
    \/ NextDay

SpecCreate == Init /\ [][NextCreate]_vars

(* ------ SpecQuote: reservations against a two-tier catalog ------------ *)
\* a catalog with an international and a local short-term row per property,
\* each at its own nightly rate
TwoTierPricing(international_rate, local_rate) ==
    [i \in 1..(2 * NumProperties) |->
        [property |-> (i + 1) \div 2,
         accommodation_type |-> "full_apartment",
         guest_type |-> IF i % 2 = 1 THEN "international" ELSE "local",
         stay_type |-> "short_term",
         number_of_guests |-> NULL,
         min_nights |-> 1,
         max_nights |-> NULL,
         price_per_night |-> IF i % 2 = 1 THEN international_rate ELSE local_rate,
         weekly_price |-> NULL]]

InitQuote ==
    /\ today = 1
    /\ bookings = <<>>
    /\ payments = <<>>
    /\ blocked = {}
    /\ pricing \in {TwoTierPricing(r1, r2) : r1, r2 \in Rates}
    /\ response = Resp("none", 0, "")
    /\ pc = [p \in Procs |-> "idle"]
    /\ loc = [p \in Procs |-> NoLocal]

\* requests of account holders living in the property's country or abroad
QuoteRequests ==
    [property : Props, check_in : Days, check_out : Days,
     accommodation_type : {"full_apartment"}, number_of_guests : {2},
     number_of_adults : {2}, number_of_children : {0},
     is_authenticated : {TRUE}, user_country : {"Kenya", "Belgium"}, user_phone : {TRUE},
     full_name : {TRUE}, email : {TRUE}, phone : {""}, dog_included : {FALSE}]

NextQuote ==
    \/ \E req \in QuoteRequests : CreateBooking(req)
    \/ \E b \in BookingIds : CancelBooking(b, TRUE)

SpecQuote == InitQuote /\ [][NextQuote]_vars

(* ------ SpecRule: the classifier and the amount, night by night ------- *)
\* catalogs of one row for property 1: a short-term or a weekly row, with
\* or without a weekly rate
RuleCatalogs ==
    {<<[property |-> 1,
        accommodation_type |-> "full_apartment",
        guest_type |-> "international",
        stay_type |-> stay,
        number_of_guests |-> NULL,
        min_nights |-> 1,
        max_nights |-> NULL,
        price_per_night |-> rate,
        weekly_price |-> weekly]>> :
        stay \in {"short_term", "weekly"}, rate \in Rates, weekly \in {NULL, 0} \cup Rates}

InitRule ==
    /\ today = 1
    /\ bookings = <<>>
    /\ payments = <<>>
    /\ blocked = {}
    /\ pricing \in RuleCatalogs
    /\ response = Resp("none", 0, "")
    /\ pc = [p \in Procs |-> "idle"]
    /\ loc = [p \in Procs |-> NoLocal]

\* a Booking instance of the given length on its way into save(): no
\* stay_type yet, the catalog's row selected
UnsavedStay(nights) ==
    [NewBooking(RequestFor(1, 1, 1 + nights)) EXCEPT
        !.stay_type = "", !.total_days = nights, !.selected_pricing = 1]

\* a stay of the given length is classified by the preview, by validate()
\* and by save(), and priced by the preview and by save()
QuoteStay(nights) ==
    /\ response' = [op |-> "quote",
                    nights |-> nights,
                    preview_stay |-> PreviewStayType(pricing, 1, "full_apartment", nights),
                    validate_stay |-> ClassifyStay(pricing, 1, "full_apartment", nights),
                    save_stay |-> BookingSave(UnsavedStay(nights), pricing).stay_type,
                    preview_amount |-> PreviewAmount(pricing, 1, nights),
                    stored_amount |-> BookingSave(UnsavedStay(nights), pricing).total_amount]
    /\ UNCHANGED <<today, bookings, payments, blocked, pricing, pc, loc>>

NextRule == \E nights \in 1..MaxNights : QuoteStay(nights)

SpecRule == InitRule /\ [][NextRule]_vars

(* ------ SpecResolve: the resolver against catalogs of every shape ----- *)
\* the rows an administrator can enter for property 1, as far as the
\* resolver tells them apart
ResolveRows ==
    [property : {1},
     accommodation_type : {"full_apartment", "master_bedroom"},
     guest_type : {"international", "local", "all"},
     stay_type : {"short_term", "long_term"},
     number_of_guests : {NULL, 2},
     min_nights : {1, 5},
     max_nights : {NULL, 2},
     price_per_night : {1},
     weekly_price : {NULL}]

InitResolve ==
    /\ today = 1
    /\ bookings = <<>>
    /\ payments = <<>>
    /\ blocked = {}
    /\ pricing \in {<<r1>> : r1 \in ResolveRows} \cup (ResolveRows \X ResolveRows)
    /\ response = Resp("none", 0, "")
    /\ pc = [p \in Procs |-> "idle"]
    /\ loc = [p \in Procs |-> NoLocal]

\* the lengths of stay asked for: below, between and above the night bounds
\* of the rows, and a long-term one
ResolveNights == {1, 3, 10}

\* the resolver is asked for a full apartment, by the preview and by
\* validate(); guests = 0 stands for a request without number_of_guests
ResolvePrice(guest, nights, guests) ==
    /\ response' =
           [op |-> "resolve", guest |-> guest, nights |-> nights, guests |-> guests,
            stay |-> ClassifyStay(pricing, 1, "full_apartment", nights),
            preview |->
                LET r == PreviewResolve(pricing, 1, "full_apartment", guest,
                                        PreviewStayType(pricing, 1, "full_apartment", nights),
                                        nights, IF guests = 0 THEN NULL ELSE guests)
                IN  IF r.status = 200 THEN "ok" ELSE r.error_type,
            create |->
                ValidatePricing(pricing, 1, "full_apartment", guest,
                                ClassifyStay(pricing, 1, "full_apartment", nights),
                                nights, guests)]
    /\ UNCHANGED <<today, bookings, payments, blocked, pricing, pc, loc>>

NextResolve ==
    \E guest \in {"international", "local"}, nights \in ResolveNights, guests \in {0, 3} :
        ResolvePrice(guest, nights, guests)

SpecResolve == InitResolve /\ [][NextResolve]_vars

(* ------ SpecSelect: the record selection, tier and occupancy ---------- *)
\* short-term full-apartment rows of property 1 that differ in guest tier,
\* capacity and minimum stay
SelectRows ==
    [property : {1},
     accommodation_type : {"full_apartment"},
     guest_type : {"international", "local", "all"},
     stay_type : {"short_term"},
     number_of_guests : {NULL, 2, 4},
     min_nights : {1, 5},
     max_nights : {NULL},
     price_per_night : {1},
     weekly_price : {NULL}]

InitSelect ==
    /\ today = 1
    /\ bookings = <<>>
    /\ payments = <<>>
    /\ blocked = {}
    /\ pricing \in {<<r1>> : r1 \in SelectRows} \cup (SelectRows \X SelectRows)
    /\ response = Resp("none", 0, "")
    /\ pc = [p \in Procs |-> "idle"]
    /\ loc = [p \in Procs |-> NoLocal]

\* a Booking instance of a classified guest on its way into save()
UnsavedFor(guest, nights, guests) ==
    [NewBooking([RequestFor(1, 1, 1 + nights) EXCEPT !.number_of_guests = guests])
        EXCEPT !.guest_type = guest, !.total_days = nights]

\* a record is looked for by the preview, by validate() and by save();
\* guests = 0 stands for a request without number_of_guests
SelectRecord(guest, nights, guests) ==
    /\ response' =
           [op |-> "select", guest |-> guest, nights |-> nights, guests |-> guests,
            preview |-> PreviewResolve(pricing, 1, "full_apartment", guest, "short_term",
                                       nights, IF guests = 0 THEN NULL ELSE guests).selected,
            validate |-> ValidatePricing(pricing, 1, "full_apartment", guest, "short_term",
                                         nights, guests),
            save |-> SelectPricing(UnsavedFor(guest, nights, guests), pricing)]
    /\ UNCHANGED <<today, bookings, payments, blocked, pricing, pc, loc>>

NextSelect ==
    \E guest \in {"international", "local"}, nights \in {1, 5}, guests \in {0, 3} :
        SelectRecord(guest, nights, guests)

SpecSelect == InitSelect /\ [][NextSelect]_vars

(* ------ SpecGuest: the guest tier of accounts and of visitors --------- *)
InitGuest ==
    /\ today = 1
    /\ bookings = <<>>
    /\ payments = <<>>
    /\ blocked = {}
    /\ pricing = TwoTierPricing(2, 1)
    /\ response = Resp("none", 0, "")
    /\ pc = [p \in Procs |-> "idle"]
    /\ loc = [p \in Procs |-> NoLocal]

\* one-night requests of visitors and of accounts with and without a
\* residence country and a profile phone, with every kind of phone value
GuestRequests ==
    [property : Props, check_in : {1}, check_out : {2},
     accommodation_type : {"full_apartment"}, number_of_guests : {2},
     number_of_adults : {2}, number_of_children : {0},
     is_authenticated : BOOLEAN,
     user_country : {"", "Kenya", "KENYA", "kenya", "Belgium"},
     user_phone : BOOLEAN, full_name : {TRUE}, email : {TRUE},
     phone : PhoneValues, dog_included : {FALSE}]

\* the guest is classified by the preview and by validate()
ClassifyGuest(req) ==
    /\ response' = [op |-> "guest", request |-> req,
                    preview |-> CalculatePrice(req, pricing),
                    validate_guest |-> GuestType(req),
                    validate_phone |-> PhoneError(req),
                    validate |-> ValidateBooking(req, bookings, blocked, pricing, today)]
    /\ UNCHANGED <<today, bookings, payments, blocked, pricing, pc, loc>>

NextGuest == \E req \in GuestRequests : ClassifyGuest(req)

SpecGuest == InitGuest /\ [][NextGuest]_vars

(* ------ SpecDetail: the detail endpoint, DELETE included -------------- *)
\* what is left under the id of a deleted reservation: the id is spent (the
\* sequence never hands it out again) and no query finds the row
DeletedRow == [NewBooking(RequestFor(0, 0, 0)) EXCEPT !.status = "deleted"]

\* the ids whose row is in the table
Stored(bks) == {b \in DOMAIN bks : bks[b] # DeletedRow}

\* BookingDetailView DELETE: get_object(), then instance.delete(); the
\* payment goes with the reservation (on_delete=CASCADE)
DeleteEffect(bks, pays, b, in_queryset) ==
    IF b \notin Stored(bks) \/ ~in_queryset
    THEN [bookings |-> bks, payments |-> pays, response |-> Resp("delete", 404, "not_found")]
    ELSE [bookings |-> [bks EXCEPT ![b] = DeletedRow],
          payments |-> [x \in DOMAIN pays \ {b} |-> pays[x]],
          response |-> Resp("delete", 204, "")]

DeleteBooking(b, in_queryset) ==
    Apply(DeleteEffect(bookings, payments, b, in_queryset))

NextDetail ==
    \/ \E req \in Requests : CreateBooking(req)
    \/ \E b \in BookingIds, patch \in Patches :
           UpdateBooking(b, b \in Stored(bookings), patch)
    \/ \E b \in BookingIds : PaymentInitialize(b, b \in Stored(bookings), TRUE)
    \/ \E b \in BookingIds, in_queryset \in BOOLEAN : DeleteBooking(b, in_queryset)

SpecDetail == Init /\ [][NextDetail]_vars

(* ------ SpecBlock: blocked ranges created and edited ------------------ *)
\* BlockedDateSerializer.validate: data holds the fields the body supplied
\* (all of them on POST and PUT, any of them on PATCH)
BlockedDateValidate(data) ==
    IF /\ "start_date" \in DOMAIN data
       /\ "end_date" \in DOMAIN data
       /\ data.end_date <= data.start_date
    THEN "end_before_start"
    ELSE "ok"

\* a clean() that accepts every range
BlockedDateCleanSkipped(row) == "ok"

\* BlockedDate.clean, run by full_clean() in BlockedDate.save
BlockedDateClean(row) ==
    IF row.end_date <= row.start_date THEN "end_before_start" ELSE "ok"

BlockedResp(op, status, error, id, data) ==
    [op |-> op, status |-> status, error |-> error, id |-> id, data |-> data]

\* BlockedDateListCreateView POST: is_valid(), then serializer.save() ->
\* BlockedDate.save(); the ValidationError of full_clean() is not one the
\* framework answers, the request ends in a server error
BlockedCreateEffect(blk, data) ==
    LET row == [id |-> Cardinality(blk) + 1, property |-> data.property,
                start_date |-> data.start_date, end_date |-> data.end_date]
    IN  IF BlockedDateValidate(data) # "ok"
        THEN [blocked |-> blk,
              response |-> BlockedResp("block", 400, BlockedDateValidate(data), 0, data)]
        ELSE IF BlockedDateClean(row) # "ok"
        THEN [blocked |-> blk,
              response |-> BlockedResp("block", 500, BlockedDateClean(row), 0, data)]
        ELSE [blocked |-> blk \cup {row},
              response |-> BlockedResp("block", 201, "", row.id, data)]

\* BlockedDateDetailView PUT/PATCH: get_object(), is_valid(), then
\* serializer.save() -> setattr of the supplied fields, BlockedDate.save()
BlockedUpdateEffect(blk, id, in_queryset, data) ==
    IF ~in_queryset \/ ~(\E r \in blk : r.id = id)
    THEN [blocked |-> blk, response |-> BlockedResp("reblock", 404, "not_found", id, data)]
    ELSE LET old == CHOOSE r \in blk : r.id = id
             row == ApplyPatch(old, data)
         IN  IF BlockedDateValidate(data) # "ok"
             THEN [blocked |-> blk,
                   response |-> BlockedResp("reblock", 400, BlockedDateValidate(data), id, data)]
             ELSE IF BlockedDateClean(row) # "ok"
             THEN [blocked |-> blk,
                   response |-> BlockedResp("reblock", 500, BlockedDateClean(row), id, data)]
             ELSE [blocked |-> (blk \ {old}) \cup {row},
                   response |-> BlockedResp("reblock", 200, "", id, data)]

\* the bodies of POST and PUT: every field
BlockedBodies == [property : Props, start_date : Days, end_date : Days]

\* the bodies of PATCH: one date, or both
BlockedPatches ==
    [start_date : Days] \cup [end_date : Days] \cup [start_date : Days, end_date : Days]

ApplyBlocked(eff) ==
    /\ blocked' = eff.blocked
    /\ response' = eff.response
    /\ UNCHANGED <<today, bookings, payments, pricing, pc, loc>>

CreateBlocked(data) ==
    /\ Cardinality(blocked) < MaxBlocked
    /\ ApplyBlocked(BlockedCreateEffect(blocked, data))

UpdateBlocked(id, in_queryset, data) ==
    ApplyBlocked(BlockedUpdateEffect(blocked, id, in_queryset, data))

NextBlock ==
    \/ \E data \in BlockedBodies : CreateBlocked(data)
    \/ \E id \in 1..MaxBlocked, data \in BlockedBodies : UpdateBlocked(id, TRUE, data)
    \/ \E id \in 1..MaxBlocked, in_queryset \in BOOLEAN, data \in BlockedPatches :
           UpdateBlocked(id, in_queryset, data)

SpecBlock == Init /\ [][NextBlock]_vars

(* -------- SpecPay: the payment of a reservation, refusals included ----- *)
PayRequests == {req \in Requests : req.property = 1 /\ req.check_out = req.check_in + 1}

CreatePayBooking(req) ==
    /\ Cardinality(DOMAIN bookings) < MaxPayBookings
    /\ CreateBooking(req)

NextPay ==
    \/ \E req \in PayRequests : CreatePayBooking(req)
    \/ \E b \in BookingIds : CancelBooking(b, TRUE)
    \/ \E b \in BookingIds, permitted, processor_ok \in BOOLEAN :
           PaymentInitialize(b, permitted, processor_ok)
    \/ \E reference \in BookingIds, permitted \in BOOLEAN, result \in VerifyResults :
           PaymentVerify(reference, permitted, result)
    \/ \E signature \in Signatures, body \in Bodies : PaystackWebhook(signature, body)

SpecPay == Init /\ [][NextPay]_vars

(* ====== SpecConc: handlers interleaved between database statements ===== *)
\* The project runs in autocommit (no ATOMIC_REQUESTS, no transaction.atomic,
\* no select_for_update): every query and every save() of a handler commits
\* on its own, and another worker's statements can fall between two of them.
\* pc[p] is the statement worker p is about to run, loc[p] what it holds in
\* memory.

\* create-booking requests that have passed validation and not yet inserted
InFlightCreates == {p \in Procs : pc[p] = "create_save"}

\* BookingListCreateView.create, serializer.is_valid(): the availability reads
ConcCreateValidate(p, req) ==
    /\ pc[p] = "idle"
    /\ Cardinality(DOMAIN bookings) + Cardinality(InFlightCreates) < MaxBookings
    /\ LET err == ValidateBooking(req, bookings, blocked, pricing, today)
       IN  IF err # "ok"
           THEN /\ response' = Resp("create", 400, err)
                /\ UNCHANGED <<pc, loc>>
           ELSE /\ pc' = [pc EXCEPT ![p] = "create_save"]
                /\ loc' = [loc EXCEPT ![p] = [op |-> "create", req |-> req]]
                /\ UNCHANGED response
    /\ UNCHANGED <<today, bookings, payments, blocked, pricing>>

\* BookingListCreateView.create, serializer.save(): the INSERT
ConcCreateSave(p) ==
    /\ pc[p] = "create_save"
    /\ bookings' = InsertBooking(bookings, BookingSave(NewBooking(loc[p].req), pricing))
    /\ response' = Resp("create", 201, "")
    /\ pc' = [pc EXCEPT ![p] = "idle"]
    /\ loc' = [loc EXCEPT ![p] = NoLocal]
    /\ UNCHANGED <<today, payments, blocked, pricing>>

\* BookingCancelView.post: get_object_or_404 and the status checks
ConcCancelLoad(p, b) ==
    /\ pc[p] = "idle"
    /\ IF b \notin DOMAIN bookings
       THEN /\ response' = Resp("cancel", 404, "not_found")
            /\ UNCHANGED <<pc, loc>>
       ELSE IF bookings[b].status = "cancelled"
       THEN /\ response' = Resp("cancel", 400, "already_cancelled")
            /\ UNCHANGED <<pc, loc>>
       ELSE IF bookings[b].status = "completed"
       THEN /\ response' = Resp("cancel", 400, "completed")
            /\ UNCHANGED <<pc, loc>>
       ELSE /\ pc' = [pc EXCEPT ![p] = "cancel_save_booking"]
            /\ loc' = [loc EXCEPT ![p] = [op |-> "cancel", b |-> b,
                                          row |-> [bookings[b] EXCEPT !.status = "cancelled"]]]
            /\ UNCHANGED response
    /\ UNCHANGED <<today, bookings, payments, blocked, pricing>>

\* BookingCancelView.post: booking.save() writes the row held in memory
ConcCancelSaveBooking(p) ==
    /\ pc[p] = "cancel_save_booking"
    /\ bookings' = [bookings EXCEPT ![loc[p].b] = BookingSave(loc[p].row, pricing)]
    /\ pc' = [pc EXCEPT ![p] = "cancel_save_property"]
    /\ UNCHANGED <<today, payments, blocked, pricing, response, loc>>

\* BookingCancelView.post: booking.property.status = 'free' and
\* property.save(); Property has no status column, nothing stored changes
ConcCancelSaveProperty(p) ==
    /\ pc[p] = "cancel_save_property"
    /\ pc' = [pc EXCEPT ![p] = "cancel_load_payment"]
    /\ UNCHANGED <<today, bookings, payments, blocked, pricing, response, loc>>

\* BookingCancelView.post: hasattr(booking, 'payment') reads the payment
ConcCancelLoadPayment(p) ==
    /\ pc[p] = "cancel_load_payment"
    /\ IF loc[p].b \in DOMAIN payments /\ payments[loc[p].b].status = "completed"
       THEN /\ pc' = [pc EXCEPT ![p] = "cancel_save_payment"]
            /\ loc' = [loc EXCEPT ![p] =
                          [op |-> "cancel", b |-> loc[p].b,
                           payment |-> [payments[loc[p].b] EXCEPT !.status = "refunded"]]]
            /\ UNCHANGED response
       ELSE /\ pc' = [pc EXCEPT ![p] = "idle"]
            /\ loc' = [loc EXCEPT ![p] = NoLocal]
            /\ response' = Resp("cancel", 200, "")
    /\ UNCHANGED <<today, bookings, payments, blocked, pricing>>

\* BookingCancelView.post: payment.save()
ConcCancelSavePayment(p) ==
    /\ pc[p] = "cancel_save_payment"
    /\ payments' = PutPayment(payments, loc[p].b, loc[p].payment)
    /\ response' = Resp("cancel", 200, "")
    /\ pc' = [pc EXCEPT ![p] = "idle"]
    /\ loc' = [loc EXCEPT ![p] = NoLocal]
    /\ UNCHANGED <<today, bookings, blocked, pricing>>

\* PaystackWebhookView.post for a correctly signed charge.success: the
\* payment lookup and the "already completed" guard
ConcWebhookReceive(p, reference) ==
    /\ pc[p] = "idle"
    /\ verify_webhook_signature(ChargeSuccess(reference),
                                HmacDigest(SecretKey, ChargeSuccess(reference)))
    /\ LET found == PaymentsByReference(payments, reference)
       IN  IF found = {} \/ payments[CHOOSE x \in found : TRUE].status = "completed"
           THEN /\ response' = Resp("webhook", 200, "")
                /\ UNCHANGED <<pc, loc>>
           ELSE LET b == CHOOSE x \in found : TRUE
                IN  /\ pc' = [pc EXCEPT ![p] = "webhook_load_booking"]
                    /\ loc' = [loc EXCEPT ![p] =
                                  [op |-> "webhook", b |-> b,
                                   payment |-> [payments[b] EXCEPT !.status = "completed",
                                                                   !.completed_at = today]]]
                    /\ UNCHANGED response
    /\ UNCHANGED <<today, bookings, payments, blocked, pricing>>

\* PaystackWebhookView.post: booking = payment.booking reads the reservation
ConcWebhookLoadBooking(p) ==
    /\ pc[p] = "webhook_load_booking"
    /\ pc' = [pc EXCEPT ![p] = "webhook_save_booking"]
    /\ loc' = [loc EXCEPT ![p] =
                  [op |-> "webhook", b |-> loc[p].b, payment |-> loc[p].payment,
                   row |-> [bookings[loc[p].b] EXCEPT !.status = "confirmed"]]]
    /\ UNCHANGED <<today, bookings, payments, blocked, pricing, response>>

\* PaystackWebhookView.post: booking.save()
ConcWebhookSaveBooking(p) ==
    /\ pc[p] = "webhook_save_booking"
    /\ bookings' = [bookings EXCEPT ![loc[p].b] = BookingSave(loc[p].row, pricing)]
    /\ pc' = [pc EXCEPT ![p] = "webhook_save_payment"]
    /\ UNCHANGED <<today, payments, blocked, pricing, response, loc>>

\* PaystackWebhookView.post: payment.save() and the 200 answer
ConcWebhookSavePayment(p) ==
    /\ pc[p] = "webhook_save_payment"
    /\ payments' = PutPayment(payments, loc[p].b, loc[p].payment)
    /\ response' = Resp("webhook", 200, "")
    /\ pc' = [pc EXCEPT ![p] = "idle"]
    /\ loc' = [loc EXCEPT ![p] = NoLocal]
    /\ UNCHANGED <<today, bookings, blocked, pricing>>

\* the first payment initialization of a reservation, the processor answering
ConcInitialize(b) ==
    /\ b \in DOMAIN bookings
    /\ b \notin DOMAIN payments
    /\ PaymentInitialize(b, TRUE, TRUE)

\* a worker dies between two statements of a cancel: what it has committed
\* stays, the rest of the handler never runs
ConcCancelFails(p) ==
    /\ pc[p] \in {"cancel_save_property", "cancel_load_payment", "cancel_save_payment"}
    /\ pc' = [pc EXCEPT ![p] = "idle"]
    /\ loc' = [loc EXCEPT ![p] = NoLocal]
    /\ response' = Resp("cancel", 500, "server_error")
    /\ UNCHANGED <<today, bookings, payments, blocked, pricing>>

NextConc ==
    \/ \E p \in Procs, req \in Requests : ConcCreateValidate(p, req)
    \/ \E p \in Procs : ConcCreateSave(p)
    \/ \E p \in Procs, b \in BookingIds : ConcCancelLoad(p, b)
    \/ \E p \in Procs : ConcCancelSaveBooking(p)
    \/ \E p \in Procs : ConcCancelSaveProperty(p)
    \/ \E p \in Procs : ConcCancelLoadPayment(p)
    \/ \E p \in Procs : ConcCancelSavePayment(p)
    \/ \E p \in Procs : ConcCancelFails(p)
    \/ \E p \in Procs, reference \in BookingIds : ConcWebhookReceive(p, reference)
    \/ \E p \in Procs : ConcWebhookLoadBooking(p)
    \/ \E p \in Procs : ConcWebhookSaveBooking(p)
    \/ \E p \in Procs : ConcWebhookSavePayment(p)
    \/ \E b \in BookingIds : ConcInitialize(b)

SpecConc == Init /\ [][NextConc]_vars

(* ------ SpecRef: the booking reference under concurrent creates ------- *)
\* one-night stays of property 1 beginning on each day
RefRequests == {RequestFor(1, d, d + 1) : d \in Days}

\* create-booking requests between validation and the end of save()
RefInFlight == {p \in Procs : pc[p] \in {"create_reference", "create_insert"}}

\* Booking.save: Booking.objects.order_by('-id').first(), then
\* next_id = last_booking.id + 1, or 1 for an empty table
NextReferenceId(bks) == IF DOMAIN bks = {} THEN 1 ELSE Cardinality(DOMAIN bks) + 1

\* Booking.save: f"#BK-{year}-{next_id:04d}"; within a year the text is
\* one-to-one with next_id (the format pads, it never truncates)
BookingReference(next_id) == <<"#BK", next_id>>

\* the row with its booking_reference column
WithReference(row, reference) ==
    [f \in DOMAIN row \cup {"booking_reference"} |->
        IF f = "booking_reference" THEN reference ELSE row[f]]

\* BookingListCreateView.create, serializer.is_valid()
RefCreateValidate(p, req) ==
    /\ pc[p] = "idle"
    /\ Cardinality(DOMAIN bookings) + Cardinality(RefInFlight) < MaxBookings
    /\ LET err == ValidateBooking(req, bookings, blocked, pricing, today)
       IN  IF err # "ok"
           THEN /\ response' = Resp("create", 400, err)
                /\ UNCHANGED <<pc, loc>>
           ELSE /\ pc' = [pc EXCEPT ![p] = "create_reference"]
                /\ loc' = [loc EXCEPT ![p] = [op |-> "create", req |-> req]]
                /\ UNCHANGED response
    /\ UNCHANGED <<today, bookings, payments, blocked, pricing>>

\* Booking.save: the query for the last booking and the reference built
\* from it
RefCreateReference(p) ==
    /\ pc[p] = "create_reference"
    /\ pc' = [pc EXCEPT ![p] = "create_insert"]
    /\ loc' = [loc EXCEPT ![p] =
                  [op |-> "create", req |-> loc[p].req,
                   booking_reference |-> BookingReference(NextReferenceId(bookings))]]
    /\ UNCHANGED <<today, bookings, payments, blocked, pricing, response>>

\* Booking.save, super().save(): the INSERT; booking_reference is unique=True
\* and a second row with a stored reference is an IntegrityError
RefCreateInsert(p) ==
    /\ pc[p] = "create_insert"
    /\ IF \E b \in DOMAIN bookings : bookings[b].booking_reference = loc[p].booking_reference
       THEN /\ response' = Resp("create", 500, "duplicate_reference")
            /\ UNCHANGED bookings
       ELSE /\ bookings' = InsertBooking(bookings,
                               WithReference(BookingSave(NewBooking(loc[p].req), pricing),
                                             loc[p].booking_reference))
            /\ response' = Resp("create", 201, "")
    /\ pc' = [pc EXCEPT ![p] = "idle"]
    /\ loc' = [loc EXCEPT ![p] = NoLocal]
    /\ UNCHANGED <<today, payments, blocked, pricing>>

NextRef ==
    \/ \E p \in Procs, req \in RefRequests : RefCreateValidate(p, req)
    \/ \E p \in Procs : RefCreateReference(p)
    \/ \E p \in Procs : RefCreateInsert(p)
    \/ NextDay

SpecRef == Init /\ [][NextRef]_vars

(* ------ SpecInit: payment initializations between statements --------- *)
\* the token standing for f"BK-{booking.id}-{uuid.uuid4().hex[:8].upper()}":
\* every call of uuid4 gives another value, so every worker gets its own
UuidReference(b, p) == b + MaxBookings * p

\* PaymentInitializeView.post: get_object_or_404(Booking), the permission
\* check, and the SELECT of get_or_create
InitGet(p, b) ==
    /\ pc[p] = "idle"
    /\ b \in DOMAIN bookings
    /\ IF b \in DOMAIN payments
       THEN /\ pc' = [pc EXCEPT ![p] = "init_prepare"]
            /\ loc' = [loc EXCEPT ![p] = [op |-> "initialize", b |-> b,
                                          payment |-> payments[b], created |-> FALSE]]
       ELSE /\ pc' = [pc EXCEPT ![p] = "init_insert"]
            /\ loc' = [loc EXCEPT ![p] = [op |-> "initialize", b |-> b,
                                          payment |-> NewPayment(bookings, b),
                                          created |-> TRUE]]
    /\ UNCHANGED <<today, bookings, payments, blocked, pricing, response>>

\* get_or_create, the INSERT: Payment.booking is a OneToOneField, a second
\* row for the reservation is an IntegrityError, which get_or_create answers
\* by reading the row that is there
InitInsert(p) ==
    /\ pc[p] = "init_insert"
    /\ IF loc[p].b \in DOMAIN payments
       THEN /\ loc' = [loc EXCEPT ![p] = [op |-> "initialize", b |-> loc[p].b,
                                          payment |-> payments[loc[p].b],
                                          created |-> FALSE]]
            /\ UNCHANGED payments
       ELSE /\ payments' = PutPayment(payments, loc[p].b, loc[p].payment)
            /\ UNCHANGED loc
    /\ pc' = [pc EXCEPT ![p] = "init_prepare"]
    /\ UNCHANGED <<today, bookings, blocked, pricing, response>>

\* PaymentInitializeView.post: the reset of a payment that is not pending
\* and the reference of a payment that has none; each payment.save() writes
\* every column of the instance the worker holds
InitPrepare(p) ==
    /\ pc[p] = "init_prepare"
    /\ LET p0 == loc[p].payment
           p1 == IF ~loc[p].created /\ p0.status # "pending"
                 THEN [p0 EXCEPT !.status = "pending"]
                 ELSE p0
           p2 == IF p1.reference = 0
                 THEN [p1 EXCEPT !.reference = UuidReference(loc[p].b, p)]
                 ELSE p1
       IN  /\ payments' = IF p2 = p0 THEN payments ELSE PutPayment(payments, loc[p].b, p2)
           /\ loc' = [loc EXCEPT ![p].payment = p2]
    /\ pc' = [pc EXCEPT ![p] = "init_answer"]
    /\ UNCHANGED <<today, bookings, blocked, pricing, response>>

\* PaymentInitializeView.post after initialize_payment: the access code or
\* the failure is saved
InitAnswer(p, processor_ok) ==
    /\ pc[p] = "init_answer"
    /\ IF processor_ok
       THEN /\ payments' = PutPayment(payments, loc[p].b, loc[p].payment)
            /\ response' = Resp("initialize", 200, "")
       ELSE /\ payments' = PutPayment(payments, loc[p].b,
                               [loc[p].payment EXCEPT
                                   !.status = "failed",
                                   !.failure_reason = "Payment initialization failed"])
            /\ response' = Resp("initialize", 400, "initialization_failed")
    /\ pc' = [pc EXCEPT ![p] = "idle"]
    /\ loc' = [loc EXCEPT ![p] = NoLocal]
    /\ UNCHANGED <<today, bookings, blocked, pricing>>

NextInit ==
    \/ \E req \in PayRequests : CreatePayBooking(req)
    \/ \E p \in Procs, b \in BookingIds : InitGet(p, b)
    \/ \E p \in Procs : InitInsert(p)
    \/ \E p \in Procs : InitPrepare(p)
    \/ \E p \in Procs, processor_ok \in BOOLEAN : InitAnswer(p, processor_ok)

SpecInit == Init /\ [][NextInit]_vars

(* ============================== claims ================================ *)
\* [a1, a2) and [b1, b2) share a night
IntervalsOverlap(a1, a2, b1, b2) == a1 < b2 /\ b1 < a2

C3_TerminalStatuses ==
    [][\A b \in DOMAIN bookings :
          bookings[b].status \in {"cancelled", "completed"}
          => (b \in DOMAIN bookings' /\ bookings'[b].status = bookings[b].status)]_vars

\* C6: cancelling a pending or confirmed reservation sets its status to
\* cancelled and its payment to refunded exactly when that payment was
\* completed; a payment in any other status, and the reservation's dates and
\* price, are left unchanged.
C6_CancelEffect ==
    \A b \in DOMAIN bookings :
        bookings[b].status \in ActiveStatuses
        => LET e == CancelEffect(bookings, payments, pricing, b, TRUE)
           IN  /\ e.bookings[b].status = "cancelled"
               /\ e.bookings[b].check_in = bookings[b].check_in
               /\ e.bookings[b].check_out = bookings[b].check_out
               /\ e.bookings[b].total_amount = bookings[b].total_amount
               /\ DOMAIN e.payments = DOMAIN payments
               /\ \A x \in DOMAIN payments :
                      e.payments[x] =
                          IF x = b /\ payments[b].status = "completed"
                          THEN [payments[b] EXCEPT !.status = "refunded"]
                          ELSE payments[x]

\* C8: a payment-completion result (verify reporting success, or a
\* charge.success webhook) processed for a pending reservation makes the
\* payment completed and the reservation confirmed; a non-success verify
\* result makes the payment failed and leaves the reservation's status.
C8_CompletionConfirms ==
    \A b \in DOMAIN payments :
        (bookings[b].status = "pending" /\ payments[b].reference # 0)
        => LET r == payments[b].reference
               w == WebhookEffect(bookings, payments, pricing, today,
                                  HmacDigest(SecretKey, ChargeSuccess(r)), ChargeSuccess(r))
               v == VerifyEffect(bookings, payments, pricing, today, r, TRUE, "success")
               f == VerifyEffect(bookings, payments, pricing, today, r, TRUE, "failed")
           IN  /\ w.payments[b].status = "completed" /\ w.bookings[b].status = "confirmed"
               /\ v.payments[b].status = "completed" /\ v.bookings[b].status = "confirmed"
               /\ f.payments[b].status = "failed" /\ f.bookings[b].status = "pending"

\* C7: cancelled and completed reservations never cause a conflict -- a
\* range that overlaps or abuts only such reservations (and no blocked
\* range) is reported available and is not rejected by create-booking as a
\* date or buffer conflict.
C7_CancelledFreesDates ==
    \A prop \in Props, check_in, check_out \in Days :
        (/\ check_in < check_out
         /\ \A b \in DOMAIN bookings :
                (/\ bookings[b].property = prop
                 /\ \/ IntervalsOverlap(bookings[b].check_in, bookings[b].check_out,
                                        check_in, check_out)
                    \/ bookings[b].check_out = check_in)
                => bookings[b].status \in {"cancelled", "completed"}
         /\ OverlappingBlocked(blocked, prop, check_in, check_out) = {})
        => /\ IsAvailable(bookings, blocked, prop, check_in, check_out)
           /\ ValidateBooking(RequestFor(prop, check_in, check_out),
                              bookings, blocked, pricing, today)
                  \notin {"date_conflict", "buffer", "blocked"}

\* a reservation was cancelled and a later create-booking request took
\* nights it had held
C7_Witness ==
    /\ response = Resp("create", 201, "")
    /\ \E b1, b2 \in DOMAIN bookings :
           /\ b1 < b2
           /\ bookings[b1].status = "cancelled"
           /\ bookings[b2].status = "pending"
           /\ bookings[b1].property = bookings[b2].property
           /\ IntervalsOverlap(bookings[b1].check_in, bookings[b1].check_out,
                               bookings[b2].check_in, bookings[b2].check_out)

\* C9: when the processor's initialize call fails, the reservation keeps
\* its status (a pending one stays pending, none is confirmed), the payment
\* is marked failed and the failure reason is recorded on it.
C9_InitializeFailure ==
    \A b \in DOMAIN bookings :
        LET e == InitializeEffect(bookings, payments, b, TRUE, FALSE)
        IN  /\ e.bookings = bookings
            /\ b \in DOMAIN e.payments
            /\ e.payments[b].status = "failed"
            /\ e.payments[b].failure_reason # ""
            /\ e.response.status = 400

\* an initialization has just failed for a pending reservation
C9_Witness ==
    /\ response = Resp("initialize", 400, "initialization_failed")
    /\ \E b \in DOMAIN payments :
           /\ bookings[b].status = "pending"
           /\ payments[b].status = "failed"
           /\ payments[b].failure_reason = "Payment initialization failed"

\* C10: a webhook notification whose signature is missing or is not the
\* HMAC of its body changes no payment and no reservation.
C10_BadSignatureNoEffect ==
    \A signature \in Signatures, body \in Bodies :
        (signature = 0 \/ signature # HmacDigest(SecretKey, body))
        => LET e == WebhookEffect(bookings, payments, pricing, today, signature, body)
           IN  /\ e.bookings = bookings
               /\ e.payments = payments
               /\ e.response.status = 400

\* a notification with a wrong signature has just been refused while a
\* pending payment was waiting for its completion
C10_Witness ==
    /\ response = Resp("webhook", 400, "invalid_signature")
    /\ \E b \in DOMAIN payments :
           /\ payments[b].status = "pending"
           /\ payments[b].reference # 0
           /\ bookings[b].status = "pending"

\* C2: at most one winner -- a create-booking request that reaches its
\* insert while a pending or confirmed reservation already holds nights of
\* its range on the same property persists nothing and is answered with the
\* date-conflict diagnostic.
C2_AtMostOneWinner ==
    [][\A p \in Procs :
          (/\ pc[p] = "create_save"
           /\ pc'[p] = "idle"
           /\ OverlappingBookings(bookings, loc[p].req.property,
                                  loc[p].req.check_in, loc[p].req.check_out) # {})
          => (/\ bookings' = bookings
              /\ response' = Resp("create", 400, "date_conflict"))]_vars

\* the statements with which the webhook handler writes
WebhookWrites == {"webhook_save_booking", "webhook_save_payment"}

\* C4: webhook idempotence -- once the completion of a payment has been
\* recorded, a write of another (replayed or concurrent) processing of its
\* charge.success notification changes no reservation and no payment.
C4_WebhookIdempotent ==
    [][\A p \in Procs :
          (/\ pc[p] \in WebhookWrites
           /\ pc'[p] # pc[p]
           /\ payments[loc[p].b].completed_at # 0)
          => (bookings' = bookings /\ payments' = payments)]_vars

\* C5: cancel atomicity -- no state shows a cancelled reservation whose
\* payment is still completed, nor a pending or confirmed reservation whose
\* payment is refunded.
C5_CancelAtomic ==
    \A b \in DOMAIN payments :
        /\ ~(bookings[b].status = "cancelled" /\ payments[b].status = "completed")
        /\ ~(bookings[b].status \in ActiveStatuses /\ payments[b].status = "refunded")

(* ------------------------- C11 .. C20 --------------------------------- *)
\* C11: a create-booking request that fails any check (required fields,
\* occupancy arithmetic, property capacity, add-on policy, date sanity,
\* availability, phone format, pricing) persists no reservation and leaves
\* reservations, blocked ranges and payments unchanged; a reservation is
\* persisted only when all checks pass.
C11_FailedCreatePersistsNothing ==
    /\ [](\A req \in CreateRequests :
            LET err == ValidateBooking(req, bookings, blocked, pricing, today)
                e == CreateEffect(bookings, payments, blocked, pricing, today, req)
            IN  /\ err # "ok" => /\ e.bookings = bookings
                                 /\ e.payments = payments
                                 /\ e.response = Resp("create", 400, err)
                /\ err = "ok" => /\ DOMAIN e.bookings = DOMAIN bookings \cup {NextId(bookings)}
                                 /\ \A b \in DOMAIN bookings : e.bookings[b] = bookings[b]
                                 /\ e.bookings[NextId(bookings)].check_in = req.check_in
                                 /\ e.bookings[NextId(bookings)].check_out = req.check_out
                                 /\ e.bookings[NextId(bookings)].property = req.property
                                 /\ e.payments = payments
                                 /\ e.response.status = 201)
    /\ [][/\ (response'.op = "create" /\ response'.status = 400 /\ today' = today)
             => (bookings' = bookings /\ payments' = payments /\ blocked' = blocked)
          /\ bookings' # bookings
             => (/\ response' = Resp("create", 201, "")
                 /\ payments' = payments /\ blocked' = blocked
                 /\ ValidateBooking(RequestFor(bookings'[NextId(bookings)].property,
                                               bookings'[NextId(bookings)].check_in,
                                               bookings'[NextId(bookings)].check_out),
                                    bookings, blocked, pricing, today) = "ok")]_vars

\* a request was refused for its phone number while a reservation was on
\* file
C11_Witness ==
    /\ response = Resp("create", 400, "invalid_phone_format")
    /\ bookings # <<>>

\* C12: the persisted reservation records the guest tier, duration tier and
\* total the classifiers and the resolver produce -- for every accepted
\* create-booking request, the stored guest_type, stay_type and total_amount
\* equal those the price preview returns for the same property, dates,
\* accommodation type, guest and occupancy.
C12_PersistedMatchesPreview ==
    \A req \in QuoteRequests :
        LET e == CreateEffect(bookings, payments, blocked, pricing, today, req)
            quote == CalculatePrice(req, pricing)
        IN  e.response.status = 201
            => /\ quote.status = 200
               /\ e.bookings[NextId(bookings)].guest_type = quote.guest_type
               /\ e.bookings[NextId(bookings)].stay_type = quote.stay_type
               /\ e.bookings[NextId(bookings)].total_amount = quote.total_amount

\* C13: create-booking and check-availability agree -- for a range with
\* check_out after check_in and check_in not in the past, the overlap,
\* blocked-range and buffer checks of create-booking all pass if and only
\* if check-availability reports is_available = true.
C13_CreateAgreesWithReport ==
    \A prop \in Props, check_in, check_out \in Days :
        (check_out > check_in /\ check_in >= today)
        => LET report == AvailabilityReport(bookings, blocked, prop, check_in, check_out)
               err == ValidateBooking(RequestFor(prop, check_in, check_out),
                                      bookings, blocked, pricing, today)
           IN  /\ report.is_available
                  <=> /\ OverlappingBookings(bookings, prop, check_in, check_out) = {}
                      /\ OverlappingBlocked(blocked, prop, check_in, check_out) = {}
                      /\ SameDayCheckout(bookings, prop, check_in) = {}
               /\ err \in {"date_conflict", "blocked", "buffer"} => ~report.is_available
               /\ err = "ok" => report.is_available

\* a range is free for both while another is refused by both, with a
\* cancelled reservation and a blocked range on file
C13_Witness ==
    /\ blocked # {}
    /\ \E b \in DOMAIN bookings : bookings[b].status = "cancelled"
    /\ \E prop \in Props, c1, c2, d1, d2 \in Days :
           /\ c1 >= today /\ d1 >= today
           /\ AvailabilityReport(bookings, blocked, prop, c1, c2).is_available
           /\ ValidateBooking(RequestFor(prop, c1, c2), bookings, blocked, pricing, today) = "ok"
           /\ ~AvailabilityReport(bookings, blocked, prop, d1, d2).is_available
           /\ ValidateBooking(RequestFor(prop, d1, d2), bookings, blocked, pricing, today)
                  \in {"date_conflict", "blocked", "buffer"}

\* C14: the buffer rule -- while a pending or confirmed reservation of a
\* property has check_out = D, a create-booking request for that property
\* with check_in = D is rejected, and check-availability for a range
\* starting on D reports unavailable with that reservation as a buffer
\* conflict.
C14_BufferRule ==
    \A b \in DOMAIN bookings, n \in 1..2 :
        bookings[b].status \in ActiveStatuses
        => LET prop == bookings[b].property
               D == bookings[b].check_out
               report == AvailabilityReport(bookings, blocked, prop, D, D + n)
               e == CreateEffect(bookings, payments, blocked, pricing, today,
                                 RequestFor(prop, D, D + n))
           IN  /\ e.response.status = 400
               /\ e.bookings = bookings
               /\ ~report.is_available
               /\ b \in report.buffer_conflicts

\* a request to check in on the day another guest checks out was refused
\* for the buffer day, the nights themselves being free
C14_Witness ==
    /\ response = Resp("create", 400, "buffer")
    /\ \E b \in DOMAIN bookings :
           /\ bookings[b].status \in ActiveStatuses
           /\ bookings[b].check_out < MaxDay
           /\ LET report == AvailabilityReport(bookings, blocked, bookings[b].property,
                                               bookings[b].check_out, MaxDay)
              IN  /\ report.conflicting_bookings = {}
                  /\ report.blocked_dates = {}
                  /\ report.buffer_conflicts = {b}
                  /\ ~report.is_available

\* C15: check-availability fails with InvalidDateRange when
\* check_out - check_in <= 0 and with PastCheckIn when check_in precedes the
\* current date; it never returns a report for such a range.
C15_ReportRejectsBadRange ==
    \A prop \in Props, check_in, check_out \in Days :
        (check_out - check_in <= 0 \/ check_in < today)
        => AvailabilityReport(bookings, blocked, prop, check_in, check_out).status # 200

\* C16: the unavailable-date list of an availability report is exactly the
\* dates d of [check_in, check_out) that lie inside some pending or confirmed
\* reservation or some blocked range of the property.
C16_UnavailableDates ==
    \A prop \in Props, check_in, check_out \in Days :
        AvailabilityReport(bookings, blocked, prop, check_in, check_out).unavailable_dates
        = {d \in Days :
              /\ check_in <= d /\ d < check_out
              /\ \/ \E b \in DOMAIN bookings :
                        /\ bookings[b].property = prop
                        /\ bookings[b].status \in ActiveStatuses
                        /\ bookings[b].check_in <= d /\ d < bookings[b].check_out
                 \/ \E x \in blocked :
                        /\ x.property = prop
                        /\ x.start_date <= d /\ d < x.end_date}

\* a report lists a blocked night and a reserved night and leaves out the
\* night of a cancelled reservation
C16_Witness ==
    \E prop \in Props, b1, b2 \in DOMAIN bookings :
        /\ bookings[b1].property = prop /\ bookings[b2].property = prop
        /\ bookings[b1].status = "cancelled"
        /\ bookings[b2].status \in ActiveStatuses
        /\ \E x \in blocked : x.property = prop
        /\ LET dates == AvailabilityReport(bookings, blocked, prop, 1, MaxDay).unavailable_dates
           IN  /\ dates # {}
               /\ \E x \in blocked : x.start_date \in dates
               /\ bookings[b2].check_in \in dates

C18_TotalAmount ==
    response.op = "quote"
    => LET amount == IF response.nights % 7 = 0 /\ pricing[1].weekly_price # NULL
                     THEN pricing[1].weekly_price * (response.nights \div 7)
                     ELSE pricing[1].price_per_night * response.nights
       IN  /\ response.preview_amount = amount
           /\ response.stored_amount = amount

\* C19: rejection priority -- whenever the resolver finds no pricing record,
\* the diagnostic returned is the first applicable one in the order
\* AccommodationUnavailable, MinimumNightsNotMet, MaximumNightsExceeded,
\* InvalidStayDuration, GuestTypeNotSupported, GuestCapacityExceeded,
\* PricingNotAvailable, for every catalog and request, in the price preview
\* and in create-booking.
C19_RejectionPriority ==
    response.op = "resolve"
    => LET guest == response.guest
           stay == response.stay
           nights == response.nights
           guests == response.guests
           rows == {i \in DOMAIN pricing : pricing[i].accommodation_type = "full_apartment"}
           tier(g) == {i \in rows :
                          /\ pricing[i].guest_type = g
                          /\ pricing[i].stay_type = stay
                          /\ pricing[i].min_nights <= nights
                          /\ (pricing[i].max_nights = NULL \/ pricing[i].max_nights >= nights)}
           candidates == IF tier(guest) # {} THEN tier(guest) ELSE tier("all")
           first ==
               IF rows = {} THEN "accommodation_unavailable"
               ELSE IF \A i \in rows : pricing[i].min_nights > nights
                    THEN "minimum_nights_not_met"
               ELSE IF \A i \in rows : pricing[i].min_nights <= nights
                                       => /\ pricing[i].max_nights # NULL
                                          /\ pricing[i].max_nights < nights
                    THEN "maximum_nights_exceeded"
               ELSE IF \A i \in rows : pricing[i].stay_type # stay
                    THEN "invalid_stay_duration"
               ELSE IF \A i \in rows : pricing[i].guest_type \notin {"all", guest}
                    THEN "guest_type_not_supported"
               ELSE IF /\ guests # 0
                       /\ candidates # {}
                       /\ \A i \in candidates : /\ pricing[i].number_of_guests # NULL
                                                /\ pricing[i].number_of_guests < guests
                    THEN "guest_capacity_exceeded"
               ELSE "pricing_not_available"
       IN  /\ response.preview # "ok" => response.preview = first
           /\ response.create # "ok" => response.create = first

\* C20: MaximumNightsExceeded is the diagnostic exactly when no earlier
\* diagnostic applies and every pricing record of the (property,
\* accommodation type) with min_nights <= total_nights has a non-null
\* max_nights below total_nights; a record with unlimited max_nights whose
\* min_nights is above total_nights does not suppress it.
C20_MaximumNightsExceeded ==
    response.op = "resolve"
    => LET rows == {i \in DOMAIN pricing : pricing[i].accommodation_type = "full_apartment"}
           exceeded ==
               /\ rows # {}
               /\ \E i \in rows : pricing[i].min_nights <= response.nights
               /\ \A i \in rows :
                      pricing[i].min_nights <= response.nights
                      => /\ pricing[i].max_nights # NULL
                         /\ pricing[i].max_nights < response.nights
       IN  /\ response.preview = "maximum_nights_exceeded" <=> exceeded
           /\ response.create = "maximum_nights_exceeded" <=> exceeded

(* ------------------------- C21 .. C30 --------------------------------- *)
\* C21: occupancy selection -- when an occupancy is given, the resolver
\* selects, among the candidates that survived the tier and night-bound
\* filters, the one with the smallest non-null capacity >= occupancy; if
\* occupancy-bound candidates exist but none has sufficient capacity, no
\* record is selected and the request is rejected; a candidate with null
\* capacity is selected only when no occupancy-bound candidate exists.
C21_OccupancySelection ==
    (response.op = "select" /\ response.guests # 0)
    => LET tier(g) == {i \in DOMAIN pricing : /\ pricing[i].guest_type = g
                                              /\ pricing[i].min_nights <= response.nights}
           candidates == IF tier(response.guest) # {} THEN tier(response.guest)
                         ELSE tier("all")
           bound == {i \in candidates : pricing[i].number_of_guests # NULL}
           sufficient == {i \in bound : pricing[i].number_of_guests >= response.guests}
           smallest(i) == /\ i \in sufficient
                          /\ \A j \in sufficient :
                                 pricing[i].number_of_guests <= pricing[j].number_of_guests
       IN  /\ sufficient # {}
              => /\ smallest(response.preview)
                 /\ smallest(response.save)
                 /\ response.validate = "ok"
           /\ (bound # {} /\ sufficient = {})
              => /\ response.preview = 0
                 /\ response.validate # "ok"
           /\ (bound = {} /\ candidates # {})
              => /\ response.preview \in candidates
                 /\ response.save \in candidates
                 /\ response.validate = "ok"

\* C22: guest-tier fallback -- the wildcard ('all') records are consulted
\* only when no record matches the guest's own tier under the same
\* accommodation type, duration tier and night bounds; when the catalog has
\* only a wildcard record for the duration tier, a local or international
\* guest resolves successfully against it.
C22_WildcardFallback ==
    response.op = "select"
    => LET tier(g) == {i \in DOMAIN pricing : /\ pricing[i].guest_type = g
                                              /\ pricing[i].min_nights <= response.nights}
           fits(i) == \/ response.guests = 0
                      \/ pricing[i].number_of_guests = NULL
                      \/ pricing[i].number_of_guests >= response.guests
           own == tier(response.guest)
           wildcard == tier("all")
       IN  /\ own # {}
              => /\ response.preview # 0 => response.preview \in own
                 /\ response.validate = "ok" <=> \E i \in own : fits(i)
                 /\ response.preview # 0 <=> \E i \in own : fits(i)
           /\ own = {}
              => /\ response.preview # 0 => response.preview \in wildcard
                 /\ response.validate = "ok" <=> \E i \in wildcard : fits(i)
                 /\ response.preview # 0 <=> \E i \in wildcard : fits(i)

\* a local guest was resolved against a wildcard record although the
\* catalog holds an international record, and validate() accepted
C22_Witness ==
    /\ response.op = "select"
    /\ response.guest = "local"
    /\ response.preview # 0
    /\ pricing[response.preview].guest_type = "all"
    /\ response.validate = "ok"
    /\ \E i \in DOMAIN pricing : pricing[i].guest_type = "international"

\* C23: guest classification by declared residence -- when an authenticated
\* account has a declared residence country, the guest tier is local if that
\* country equals the property's country ignoring case and international
\* otherwise, the phone number is not consulted, and the classification
\* never produces an error: an absent or malformed phone cannot fail it.
C23_ClassifiedByResidence ==
    (/\ response.op = "guest"
     /\ response.request.is_authenticated
     /\ response.request.user_country # "")
    => LET tier == IF response.request.user_country \in {"Kenya", "KENYA", "kenya"}
                   THEN "local" ELSE "international"
       IN  /\ response.preview.status = 200
           /\ response.preview.guest_type = tier
           /\ response.preview.total_amount = IF tier = "local" THEN 1 ELSE 2
           /\ response.validate_guest = tier
           /\ response.validate_phone = ""
           /\ response.validate \notin {"phone_required", "invalid_phone_format",
                                        "invalid_phone"}
           /\ \A phone \in PhoneValues :
                  /\ GuestType([response.request EXCEPT !.phone = phone]) = tier
                  /\ CalculatePrice([response.request EXCEPT !.phone = phone], pricing)
                         = response.preview

\* an account residing in the property's country, written in capitals, was
\* classified local by both although its request carries a malformed phone
C23_Witness ==
    /\ response.op = "guest"
    /\ response.request.is_authenticated
    /\ response.request.user_country = "KENYA"
    /\ response.request.phone = "0712"
    /\ response.preview.guest_type = "local"
    /\ response.validate_guest = "local"
    /\ response.validate = "ok"

\* C24: occupancy arithmetic -- whenever a create-booking request supplies
\* both an adult count and a child count (a count of 0 included), the
\* request is rejected unless adults + children equals the stated total
\* guest count.
C24_OccupancyArithmetic ==
    \A req \in CreateRequests :
        (/\ req.number_of_guests # 0
         /\ req.number_of_adults + req.number_of_children # req.number_of_guests)
        => /\ ValidateBooking(req, bookings, blocked, pricing, today) # "ok"
           /\ CreateEffect(bookings, payments, blocked, pricing, today, req).response.status
                  = 400

\* C25: reservations are never deleted -- once persisted, a reservation
\* remains in the store in every later state, and its dates and property
\* are never changed after creation; the only later change is a status
\* transition.
C25_ReservationsKept ==
    [][\A b \in Stored(bookings) :
          /\ b \in Stored(bookings')
          /\ bookings'[b].check_in = bookings[b].check_in
          /\ bookings'[b].check_out = bookings[b].check_out
          /\ bookings'[b].property = bookings[b].property]_vars

\* C26: blocked ranges -- every stored blocked range ends strictly after it
\* starts, after any sequence of creates and updates (an update that
\* supplies only one of the two dates included); a create or update whose
\* resulting range would not is refused and leaves the stored ranges as
\* they were.
C26_BlockedRangesOrdered ==
    /\ [](\A r \in blocked : r.end_date > r.start_date)
    /\ [][LET rsp == response'
              old == {r \in blocked : r.id = rsp.id}
          IN  /\ (rsp.op = "block" /\ rsp.data.end_date <= rsp.data.start_date)
                 => (rsp.status >= 400 /\ blocked' = blocked)
              /\ (rsp.op = "reblock" /\ rsp.status # 404)
                 => \A r \in old :
                        LET new == ApplyPatch(r, rsp.data)
                        IN  IF new.end_date <= new.start_date
                            THEN rsp.status >= 400 /\ blocked' = blocked
                            ELSE rsp.status = 200 /\ blocked' = (blocked \ {r}) \cup {new}
       ]_vars

\* an update that supplies one date only, and would leave the range ending
\* on or before its start, has been refused
C26_Witness ==
    /\ response.op = "reblock"
    /\ response.status >= 400
    /\ response.error = "end_before_start"
    /\ DOMAIN response.data = {"end_date"}
    /\ \E r \in blocked : r.id = response.id /\ response.data.end_date <= r.start_date

\* C27: requests served one at a time -- when only create-booking and
\* cancel write reservations and no two requests interleave, no two
\* pending/confirmed reservations of a property overlap, and no
\* pending/confirmed reservation checks in on the day an earlier-created
\* pending/confirmed reservation of the same property checks out.
C27_SequentialNoConflict ==
    \A b1, b2 \in DOMAIN bookings :
        (/\ b1 < b2
         /\ bookings[b1].property = bookings[b2].property
         /\ bookings[b1].status \in ActiveStatuses
         /\ bookings[b2].status \in ActiveStatuses)
        => /\ ~(/\ bookings[b1].check_in < bookings[b2].check_out
                /\ bookings[b2].check_in < bookings[b1].check_out)
           /\ bookings[b2].check_in # bookings[b1].check_out

\* a create has just succeeded next to an earlier pending/confirmed
\* reservation of its property
C27_Witness ==
    /\ \E b1, b2 \in DOMAIN bookings :
           /\ b1 < b2
           /\ bookings[b1].property = bookings[b2].property
           /\ bookings[b1].status \in ActiveStatuses
           /\ bookings[b2].status \in ActiveStatuses
    /\ response.op = "create"
    /\ response.status = 201

\* C28: references under concurrency -- a create-booking request that has
\* passed validation and whose range is apart from every stored reservation
\* (another property, or disjoint and not adjacent dates) is inserted,
\* whatever other creates ran beside it, and no two reservations carry the
\* same booking reference.
C28_ConcurrentCreatesSucceed ==
    /\ [](\A b1, b2 \in DOMAIN bookings :
              b1 # b2 => bookings[b1].booking_reference # bookings[b2].booking_reference)
    /\ [][\A p \in Procs :
            (/\ pc[p] = "create_insert"
             /\ pc'[p] = "idle"
             /\ \A b \in DOMAIN bookings :
                    \/ bookings[b].property # loc[p].req.property
                    \/ bookings[b].check_out < loc[p].req.check_in
                    \/ loc[p].req.check_out < bookings[b].check_in)
            => /\ response'.status = 201
               /\ DOMAIN bookings' = DOMAIN bookings \cup {NextId(bookings)}]_vars

\* C29: payment status is monotonic -- a completed payment stays completed
\* or becomes refunded, a refunded payment never changes; no initialize,
\* verify or webhook moves a completed or refunded payment back to pending
\* or failed.
C29_PaymentStatusMonotonic ==
    [][\A b \in DOMAIN payments :
          /\ b \in DOMAIN payments'
          /\ payments[b].status = "completed"
             => payments'[b].status \in {"completed", "refunded"}
          /\ payments[b].status = "refunded"
             => payments'[b].status = "refunded"]_vars

\* C30: one payment per reservation -- however payment initializations of
\* a reservation follow or overlap each other, only one of them creates the
\* payment record; once the payment has a processor reference, later
\* initializations keep it; and the payment's amount is the reservation's
\* total at the first initialization, for good.
C30_OnePaymentReused ==
    /\ [](\A p, q \in Procs :
              (/\ pc[p] \in {"init_prepare", "init_answer"}
               /\ pc[q] \in {"init_prepare", "init_answer"}
               /\ loc[p].b = loc[q].b
               /\ loc[p].created /\ loc[q].created)
              => p = q)
    /\ [][\A b \in DOMAIN payments' :
            IF b \in DOMAIN payments
            THEN /\ payments'[b].amount = payments[b].amount
                 /\ payments[b].reference # 0
                    => payments'[b].reference = payments[b].reference
            ELSE payments'[b].amount = bookings[b].total_amount]_vars

====
